---- MODULE Spec2Model ----
(***************************************************************************)
(* Model of the ADV7604/ADV7611 video receiver driver                      *)
(* (drivers/media/i2c/adv7604.c): timing detection (query_dv_timings),     *)
(* input routing, EDID programming and the deferred hotplug work.          *)
(***************************************************************************)
EXTENDS Integers, Sequences, FiniteSets, TLC

(* ----------------------------------------------------------------------- *)
(* Bounds of the model                                                      *)
(* ----------------------------------------------------------------------- *)

\* saturation value of the history counters (failing detections, restarts)
MaxFails == 3

\* largest block count set_edid is called with
MaxEdidBlocksArg == 3
\* number of model time steps that make up the HZ / 10 hotplug delay
HotplugDelayTicks == 2

(* ----------------------------------------------------------------------- *)
(* Program constants                                                        *)
(* ----------------------------------------------------------------------- *)

ADV7604_fsc == 28636360
I2C_SMBUS_BLOCK_MAX == 32
EdidPollMax == 1000
AnalogMaxPixelclock == 170000000
DigitalMaxPixelclock == 225000000
AnalogPclockDelta == 1000000
DigitalPclockDelta == 250000

EINVAL == 22
E2BIG == 7
EIO == 5
ENOLINK == 67
ERANGE == 34

\* enum adv7604_type
ADV7604 == 0
ADV7611 == 1

\* enum adv7604_mode (include/media/adv7604.h, used by s_routing)
ADV7604_MODE_COMP == 0
ADV7604_MODE_GR == 1
ADV7604_MODE_HDMI == 2

\* enum of register pages
ADV7604_PAGE_IO == 0
ADV7604_PAGE_AVLINK == 1
ADV7604_PAGE_CEC == 2
ADV7604_PAGE_INFOFRAME == 3
ADV7604_PAGE_ESDP == 4
ADV7604_PAGE_DPP == 5
ADV7604_PAGE_AFE == 6
ADV7604_PAGE_REP == 7
ADV7604_PAGE_EDID == 8
ADV7604_PAGE_HDMI == 9
ADV7604_PAGE_TEST == 10
ADV7604_PAGE_CP == 11
ADV7604_PAGE_VDP == 12

ADV7604_REG(page, offset) == page * 256 + offset

\* v4l2 flag values used by the timings
V4L2_DV_VSYNC_POS_POL == 1
V4L2_DV_HSYNC_POS_POL == 2
V4L2_DV_BT_STD_CEA861 == 1
V4L2_DV_BT_STD_DMT == 2
V4L2_DV_BT_STD_CVT == 4
V4L2_DV_BT_STD_GTF == 8
V4L2_DV_FL_REDUCED_BLANKING == 1
V4L2_DV_FL_CAN_REDUCE_FPS == 2

(* ----------------------------------------------------------------------- *)
(* Bit arithmetic on non-negative integers                                  *)
(* ----------------------------------------------------------------------- *)

RECURSIVE BitAnd(_, _)
BitAnd(a, b) ==
  IF a = 0 \/ b = 0 THEN 0
  ELSE (a % 2) * (b % 2) + 2 * BitAnd(a \div 2, b \div 2)

RECURSIVE BitOr(_, _)
BitOr(a, b) ==
  IF a = 0 THEN b
  ELSE IF b = 0 THEN a
  ELSE (IF (a % 2) + (b % 2) > 0 THEN 1 ELSE 0) + 2 * BitOr(a \div 2, b \div 2)

Min(a, b) == IF a < b THEN a ELSE b

U16(x) == x % 65536

\* a u32 product a * b (a < 2^28, b < 2^13), wrapped to 32 bits and kept as
\* two 16-bit halves
mul_u32(a, b) ==
  LET x == (a % 16384) * b
      y == (a \div 16384) * b
      yl == y % 262144
      lo == (yl % 4) * 16384 + (x % 65536)
      hi == (yl \div 4) + (x \div 65536) + (lo \div 65536)
  IN [hi |-> hi % 65536, lo |-> lo % 65536]

\* comparison of a u32 kept in halves with a number below 2^31
u32_less(p, n) == p.hi < 32768 /\ p.hi * 65536 + p.lo < n

u32_greater(p, n) == p.hi >= 32768 \/ p.hi * 65536 + p.lo > n

\* A __u32 kept as the int that has the same 32 bits: 0xffffffff is -1.
\* a + b wrapped to 32 bits
add_u32(a, b) ==
  IF a >= 0 /\ b >= 0 /\ a > 2147483647 - b
  THEN (((a - 2147483647) - 1) + b - 2147483647) - 1
  ELSE IF a < 0 /\ b < 0 /\ a < (-2147483647 - 1) - b
  THEN (((a + 2147483647) + 1) + b + 2147483647) + 1
  ELSE a + b

\* a > b and a >= b of two __u32 kept this way
gt_u32(a, b) == IF (a < 0) = (b < 0) THEN a > b ELSE a < 0

ge_u32(a, b) == a = b \/ gt_u32(a, b)

(* ----------------------------------------------------------------------- *)
(* struct v4l2_dv_timings                                                   *)
(* ----------------------------------------------------------------------- *)

BT(w, ht, pol, pclk, hfp, hs, hbp, vfp, vs, vbp, std, fl) ==
  [ width |-> w, height |-> ht, interlaced |-> 0, polarities |-> pol,
    pixelclock |-> pclk,
    hfrontporch |-> hfp, hsync |-> hs, hbackporch |-> hbp,
    vfrontporch |-> vfp, vsync |-> vs, vbackporch |-> vbp,
    il_vfrontporch |-> 0, il_vsync |-> 0, il_vbackporch |-> 0,
    standards |-> std, flags |-> fl ]

\* memset(timings, 0, sizeof(struct v4l2_dv_timings))
ZeroTimings == BT(0, 0, 0, 0, 0, 0, 0, 0, 0, 0, 0, 0)

htotal(t) == t.width + t.hfrontporch + t.hsync + t.hbackporch

vtotal(t) == t.height + t.vfrontporch + t.vsync + t.vbackporch

PosPol == V4L2_DV_HSYNC_POS_POL + V4L2_DV_VSYNC_POS_POL
CeaDmt == V4L2_DV_BT_STD_CEA861 + V4L2_DV_BT_STD_DMT
DmtCvt == V4L2_DV_BT_STD_DMT + V4L2_DV_BT_STD_CVT

\* Supported CEA and DMT timings, in the order of the array
adv7604_timings ==
  << BT( 720,  480, 0,       27000000,   16,  62,  60,  9, 6, 30, V4L2_DV_BT_STD_CEA861, 0),
     BT( 720,  576, 0,       27000000,   12,  64,  68,  5, 5, 39, V4L2_DV_BT_STD_CEA861, 0),
     BT(1280,  720, PosPol,  59400000, 1760,  40, 220,  5, 5, 20, V4L2_DV_BT_STD_CEA861, V4L2_DV_FL_CAN_REDUCE_FPS),
     BT(1280,  720, PosPol,  74250000, 2420,  40, 220,  5, 5, 20, V4L2_DV_BT_STD_CEA861, 0),
     BT(1280,  720, PosPol,  74250000,  440,  40, 220,  5, 5, 20, V4L2_DV_BT_STD_CEA861, 0),
     BT(1280,  720, PosPol,  74250000,  110,  40, 220,  5, 5, 20, V4L2_DV_BT_STD_CEA861, V4L2_DV_FL_CAN_REDUCE_FPS),
     BT(1920, 1080, PosPol,  74250000,  638,  44, 148,  4, 5, 36, V4L2_DV_BT_STD_CEA861, V4L2_DV_FL_CAN_REDUCE_FPS),
     BT(1920, 1080, PosPol,  74250000,  528,  44, 148,  4, 5, 36, V4L2_DV_BT_STD_CEA861, 0),
     BT(1920, 1080, PosPol,  74250000,   88,  44, 148,  4, 5, 36, V4L2_DV_BT_STD_CEA861, V4L2_DV_FL_CAN_REDUCE_FPS),
     BT(1920, 1080, PosPol, 148500000,  528,  44, 148,  4, 5, 36, V4L2_DV_BT_STD_CEA861, 0),
     BT(1920, 1080, PosPol, 148500000,   88,  44, 148,  4, 5, 36, CeaDmt, V4L2_DV_FL_CAN_REDUCE_FPS),
     BT( 640,  350, V4L2_DV_HSYNC_POS_POL,  31500000,  32,  64,  96, 32, 3, 60, V4L2_DV_BT_STD_DMT, 0),
     BT( 640,  400, V4L2_DV_VSYNC_POS_POL,  31500000,  32,  64,  96,  1, 3, 41, V4L2_DV_BT_STD_DMT, 0),
     BT( 720,  400, V4L2_DV_VSYNC_POS_POL,  35500000,  36,  72, 108,  1, 3, 42, V4L2_DV_BT_STD_DMT, 0),
     BT( 640,  480, 0,       25175000,   16,  96,  48, 10, 2, 33, CeaDmt, 0),
     BT( 640,  480, 0,       31500000,   24,  40, 128,  9, 3, 28, V4L2_DV_BT_STD_DMT, 0),
     BT( 640,  480, 0,       31500000,   16,  64, 120,  1, 3, 16, V4L2_DV_BT_STD_DMT, 0),
     BT( 640,  480, 0,       36000000,   56,  56,  80,  1, 3, 25, V4L2_DV_BT_STD_DMT, 0),
     BT( 800,  600, PosPol,  36000000,   24,  72, 128,  1, 2, 22, V4L2_DV_BT_STD_DMT, 0),
     BT( 800,  600, PosPol,  40000000,   40, 128,  88,  1, 4, 23, V4L2_DV_BT_STD_DMT, 0),
     BT( 800,  600, PosPol,  50000000,   56, 120,  64, 37, 6, 23, V4L2_DV_BT_STD_DMT, 0),
     BT( 800,  600, PosPol,  49500000,   16,  80, 160,  1, 3, 21, V4L2_DV_BT_STD_DMT, 0),
     BT( 800,  600, PosPol,  56250000,   32,  64, 152,  1, 3, 27, V4L2_DV_BT_STD_DMT, 0),
     BT( 848,  480, PosPol,  33750000,   16, 112, 112,  6, 8, 23, V4L2_DV_BT_STD_DMT, 0),
     BT(1024,  768, 0,       65000000,   24, 136, 160,  3, 6, 29, V4L2_DV_BT_STD_DMT, 0),
     BT(1024,  768, 0,       75000000,   24, 136, 144,  3, 6, 29, V4L2_DV_BT_STD_DMT, 0),
     BT(1024,  768, PosPol,  78750000,   16,  96, 176,  1, 3, 28, V4L2_DV_BT_STD_DMT, 0),
     BT(1024,  768, PosPol,  94500000,   48,  96, 208,  1, 3, 36, V4L2_DV_BT_STD_DMT, 0),
     BT(1152,  864, PosPol, 108000000,   64, 128, 256,  1, 3, 32, V4L2_DV_BT_STD_DMT, 0),
     BT(1280,  768, V4L2_DV_HSYNC_POS_POL,  68250000,  48,  32,  80,  3, 7, 12, DmtCvt, V4L2_DV_FL_REDUCED_BLANKING),
     BT(1280,  768, V4L2_DV_VSYNC_POS_POL,  79500000,  64, 128, 192,  3, 7, 20, DmtCvt, 0),
     BT(1280,  768, V4L2_DV_VSYNC_POS_POL, 102250000,  80, 128, 208,  3, 7, 27, DmtCvt, 0),
     BT(1280,  768, V4L2_DV_VSYNC_POS_POL, 117500000,  80, 136, 216,  3, 7, 31, DmtCvt, 0),
     BT(1280,  800, V4L2_DV_HSYNC_POS_POL,  71000000,  48,  32,  80,  3, 6, 14, DmtCvt, V4L2_DV_FL_REDUCED_BLANKING),
     BT(1280,  800, V4L2_DV_VSYNC_POS_POL,  83500000,  72, 128, 200,  3, 6, 22, DmtCvt, 0),
     BT(1280,  800, V4L2_DV_VSYNC_POS_POL, 106500000,  80, 128, 208,  3, 6, 29, DmtCvt, 0),
     BT(1280,  800, V4L2_DV_VSYNC_POS_POL, 122500000,  80, 136, 216,  3, 6, 34, DmtCvt, 0),
     BT(1280,  960, PosPol, 108000000,   96, 112, 312,  1, 3, 36, V4L2_DV_BT_STD_DMT, 0),
     BT(1280,  960, PosPol, 148500000,   64, 160, 224,  1, 3, 47, V4L2_DV_BT_STD_DMT, 0),
     BT(1280, 1024, PosPol, 108000000,   48, 112, 248,  1, 3, 38, V4L2_DV_BT_STD_DMT, 0),
     BT(1280, 1024, PosPol, 135000000,   16, 144, 248,  1, 3, 38, V4L2_DV_BT_STD_DMT, 0),
     BT(1280, 1024, PosPol, 157500000,   64, 160, 224,  1, 3, 44, V4L2_DV_BT_STD_DMT, 0),
     BT(1360,  768, PosPol,  85500000,   64, 112, 256,  3, 6, 18, V4L2_DV_BT_STD_DMT, 0),
     BT(1400, 1050, V4L2_DV_HSYNC_POS_POL, 101000000,  48,  32,  80,  3, 4, 23, DmtCvt, V4L2_DV_FL_REDUCED_BLANKING),
     BT(1400, 1050, V4L2_DV_VSYNC_POS_POL, 121750000,  88, 144, 232,  3, 4, 32, DmtCvt, 0),
     BT(1400, 1050, V4L2_DV_VSYNC_POS_POL, 156000000, 104, 144, 248,  3, 4, 42, DmtCvt, 0),
     BT(1400, 1050, V4L2_DV_VSYNC_POS_POL, 179500000, 104, 152, 256,  3, 4, 48, DmtCvt, 0),
     BT(1440,  900, V4L2_DV_HSYNC_POS_POL,  88750000,  48,  32,  80,  3, 6, 17, DmtCvt, V4L2_DV_FL_REDUCED_BLANKING),
     BT(1440,  900, V4L2_DV_VSYNC_POS_POL, 106500000,  80, 152, 232,  3, 6, 25, DmtCvt, 0),
     BT(1600, 1200, PosPol, 162000000,   64, 192, 304,  1, 3, 46, V4L2_DV_BT_STD_DMT, 0),
     BT(1680, 1050, V4L2_DV_HSYNC_POS_POL, 119000000,  48,  32,  80,  3, 6, 21, DmtCvt, V4L2_DV_FL_REDUCED_BLANKING),
     BT(1680, 1050, V4L2_DV_VSYNC_POS_POL, 146250000, 104, 176, 280,  3, 6, 30, DmtCvt, 0),
     BT(1792, 1344, V4L2_DV_VSYNC_POS_POL, 204750000, 128, 200, 328,  1, 3, 46, V4L2_DV_BT_STD_DMT, 0),
     BT(1856, 1392, V4L2_DV_VSYNC_POS_POL, 218250000,  96, 224, 352,  1, 3, 43, V4L2_DV_BT_STD_DMT, 0),
     BT(1920, 1200, V4L2_DV_HSYNC_POS_POL, 154000000,  48,  32,  80,  3, 6, 26, DmtCvt, V4L2_DV_FL_REDUCED_BLANKING),
     BT(1366,  768, PosPol,  85500000,   70, 143, 213,  3, 3, 24, V4L2_DV_BT_STD_DMT, 0),
     BT(1920, 1080, PosPol, 148500000,   88,  44, 148,  4, 5, 36, CeaDmt, V4L2_DV_FL_CAN_REDUCE_FPS) >>


(* ----------------------------------------------------------------------- *)
(* struct adv7604_chip_info                                                 *)
(* ----------------------------------------------------------------------- *)

PageBits(pages) ==
  LET RECURSIVE Sum(_)
      Sum(S) == IF S = {} THEN 0
                ELSE LET x == CHOOSE y \in S : TRUE IN 2^x + Sum(S \ {x})
  IN Sum(pages)

\* adv7604_chip_info[]: fields the initialiser leaves out are zero
adv7604_chip_info ==
  (ADV7604 :>
           [ has_afe |-> TRUE,
             edid_ctrl_reg |-> 0, edid_status_reg |-> 0, lcf_reg |-> 0,
             cable_det_mask |-> 0,
             tdms_lock_mask |-> 224,
             fmt_change_digital_mask |-> 192,
             page_mask |-> PageBits(0 .. 12) ]) @@
  (ADV7611 :>
           [ has_afe |-> FALSE,
             edid_ctrl_reg |-> 116, edid_status_reg |-> 118, lcf_reg |-> 163,
             cable_det_mask |-> 1,
             tdms_lock_mask |-> 67,
             fmt_change_digital_mask |-> 3,
             page_mask |-> PageBits({ADV7604_PAGE_IO, ADV7604_PAGE_CEC,
                                     ADV7604_PAGE_INFOFRAME, ADV7604_PAGE_AFE,
                                     ADV7604_PAGE_REP, ADV7604_PAGE_EDID,
                                     ADV7604_PAGE_HDMI, ADV7604_PAGE_CP}) ])

(* ----------------------------------------------------------------------- *)
(* State                                                                    *)
(* ----------------------------------------------------------------------- *)

VARIABLES
  chip,               \* index into adv7604_chip_info (state->info)
  mode,               \* state->mode
  timings,            \* state->timings
  restart_stdi_once,  \* state->restart_stdi_once
  edid,               \* state->edid, one entry per 128-byte block
  edid_blocks,        \* state->edid_blocks
  aspect_ratio,       \* state->aspect_ratio
  regs,               \* register file of the chip, by ADV7604_REG address
  hotplug,            \* level last passed to the ADV7604_HOTPLUG notification
  work,               \* state->delayed_work_enable_hotplug
  pc,                 \* position of the running set_edid call
  e,                  \* locals and bus log of the running / last set_edid call
  op,                 \* last operation that ran
  ret,                \* its return value
  out,                \* timings a query_dv_timings call handed back
  edid_out,           \* what get_edid handed back, when it ran last
  q,                  \* facts about the last query_dv_timings call
  h,                  \* history counters of the detections
  bus,                \* bus transfers and notifications of the last
                      \* register or interrupt operation
  detect_tx_5v_ctrl,  \* value of state->detect_tx_5v_ctrl
  removed,            \* adv7604_remove has returned
  thr                 \* two query_dv_timings calls that run side by side

vars == << chip, mode, timings, restart_stdi_once, edid, edid_blocks,
           aspect_ratio, regs, hotplug, work, pc, e, op, ret, out, edid_out,
           q, h, bus, detect_tx_5v_ctrl, removed, thr >>

\* what the detection, routing and EDID operations leave alone
auxVars == << bus, detect_tx_5v_ctrl, removed, thr >>

info == adv7604_chip_info[chip]

adv7604_has_afe(ci) == ci.has_afe

DIGITAL_INPUT(m) == m = ADV7604_MODE_HDMI

(* ----------------------------------------------------------------------- *)
(* Register access                                                          *)
(* ----------------------------------------------------------------------- *)

Reg_CP_86 == ADV7604_REG(ADV7604_PAGE_CP, 134)
Reg_IO_15 == ADV7604_REG(ADV7604_PAGE_IO, 21)
Reg_HDMI_1A == ADV7604_REG(ADV7604_PAGE_HDMI, 26)
Reg_EdidCtrl == ADV7604_REG(ADV7604_PAGE_REP, info.edid_ctrl_reg)

\* xxx_write(sd, reg, val) on the register file
write_reg(r, addr, val) == [r EXCEPT ![addr] = val % 256]

\* xxx_write_and_or(sd, reg, mask, val)
write_and_or(r, addr, mask, val) ==
  write_reg(r, addr, BitOr(BitAnd(r[addr], mask), val))

(* ----------------------------------------------------------------------- *)
(* Values the hardware can present on a read                                *)
(* ----------------------------------------------------------------------- *)

\* IO 0x0c, CP 0xb1, CP 0xb5, IO 0x6a as read by the lock predicates
StatusGood      == [io0c |-> 66, cpb1 |-> 128, cpb5 |-> 249, io6a |-> 243]
StatusPowerDown == [io0c |-> 98, cpb1 |-> 128, cpb5 |-> 249, io6a |-> 243]
StatusNoStdi    == [io0c |-> 66, cpb1 |-> 0,   cpb5 |-> 249, io6a |-> 243]
StatusNoSspd    == [io0c |-> 66, cpb1 |-> 128, cpb5 |-> 1,   io6a |-> 243]
StatusNoTmds    == [io0c |-> 66, cpb1 |-> 128, cpb5 |-> 249, io6a |-> 0]

StatusSet == { StatusGood, StatusPowerDown, StatusNoStdi, StatusNoSspd,
               StatusNoTmds }

\* the STDI/SSPD registers as one readout finds them
StdiRegs(bl, lcf, lcvs, il, b5, h05) ==
  [ b1 |-> 128 + bl \div 256, b2 |-> bl % 256,
    lcf_hi |-> lcf \div 256, lcf_lo |-> lcf % 256,
    b3 |-> lcvs * 8 + (lcf \div 256),
    io12 |-> IF il THEN 16 ELSE 0,
    cpb5 |-> b5, hdmi05 |-> h05 ]

StdiRegSet ==
  { StdiRegs(7331,  624, 5, FALSE, 249, 48),   \* 720x576p50
    StdiRegs(7331,  624, 4, FALSE, 249, 48),   \* same, lcvs one short
    StdiRegs(7331,  624, 6, FALSE, 249, 48),   \* same, lcvs one long
    StdiRegs(2739, 1393, 3, FALSE, 249, 48),   \* 1792x1344p60, 204.75 MHz
    StdiRegs(3055, 1249, 3, FALSE, 249, 48),   \* 1600x1200p60, 162 MHz
    StdiRegs(5000,  300, 0, FALSE, 249, 48),   \* nothing known, lcvs 0
    StdiRegs(4000, 1000, 4, FALSE, 113, 16),   \* nothing known, +vsync only
    StdiRegs(5091,  749, 5, TRUE,  249, 48),   \* 1280x720p60, interlaced bit
    StdiRegs(16383, 624, 5, FALSE, 249, 48),   \* bl saturated
    StdiRegs(7331,  100, 5, FALSE, 249, 48) }  \* too few lines

(* ----------------------------------------------------------------------- *)
(* SignalMonitor                                                            *)
(* ----------------------------------------------------------------------- *)

no_power(s) == BitAnd(s.io0c, 36) # 0

no_signal_tmds(s) == BitAnd(s.io6a, 16) = 0

no_lock_tmds(ci, s) ==
  BitAnd(s.io6a, ci.tdms_lock_mask) # ci.tdms_lock_mask

no_lock_sspd(ci, s) ==
  IF adv7604_has_afe(ci) THEN FALSE
  ELSE BitAnd(s.cpb5, 208) # 208

no_lock_stdi(s) == BitAnd(s.cpb1, 128) = 0

\* variant: the TMDS bits count in every input mode
no_signal_tmds_always(ci, m, s) ==
  \/ no_power(s)
  \/ no_lock_stdi(s)
  \/ no_lock_sspd(ci, s)
  \/ no_lock_tmds(ci, s) \/ no_signal_tmds(s)

no_signal(ci, m, s) ==
  \/ no_power(s)
  \/ no_lock_stdi(s)
  \/ no_lock_sspd(ci, s)
  \/ (DIGITAL_INPUT(m) /\ (no_lock_tmds(ci, s) \/ no_signal_tmds(s)))

(* ----------------------------------------------------------------------- *)
(* TimingSampler: read_stdi                                                 *)
(* ----------------------------------------------------------------------- *)

ZeroStdi == [bl |-> 0, lcf |-> 0, lcvs |-> 0, hs_pol |-> "0", vs_pol |-> "0",
             interlaced |-> FALSE]

stdi_readback(ci, r) ==
  [ bl |-> BitAnd(r.b1 * 256 + r.b2, 16383),
    lcf |-> BitAnd(r.lcf_hi * 256 + r.lcf_lo, 2047),
    lcvs |-> r.b3 \div 8,
    interlaced |-> BitAnd(r.io12, 16) # 0,
    hs_pol |-> IF adv7604_has_afe(ci)
               THEN IF BitAnd(r.cpb5, 3) = 1
                    THEN IF BitAnd(r.cpb5, 16) # 0
                         THEN (IF BitAnd(r.cpb5, 8) # 0 THEN "+" ELSE "-")
                         ELSE "x"
                    ELSE "x"
               ELSE IF BitAnd(r.hdmi05, 32) # 0 THEN "+" ELSE "-",
    vs_pol |-> IF adv7604_has_afe(ci)
               THEN IF BitAnd(r.cpb5, 3) = 1
                    THEN IF BitAnd(r.cpb5, 64) # 0
                         THEN (IF BitAnd(r.cpb5, 32) # 0 THEN "+" ELSE "-")
                         ELSE "x"
                    ELSE "x"
               ELSE IF BitAnd(r.hdmi05, 16) # 0 THEN "+" ELSE "-" ]

\* variant: the lock is not tested again after the readout
read_stdi_no_recheck(ci, pre, r, post) ==
  IF no_lock_stdi(pre) \/ no_lock_sspd(ci, pre)
  THEN [err |-> TRUE, stdi |-> ZeroStdi]
  ELSE LET s == stdi_readback(ci, r) IN
       IF s.lcf < 239 \/ s.bl < 8 \/ s.bl = 16383
       THEN [err |-> TRUE, stdi |-> ZeroStdi]
       ELSE [err |-> FALSE, stdi |-> s]

\* read_stdi(): err is the -1 return, stdi the readback left to the caller
read_stdi(ci, pre, r, post) ==
  IF no_lock_stdi(pre) \/ no_lock_sspd(ci, pre)
  THEN [err |-> TRUE, stdi |-> ZeroStdi]
  ELSE LET s == stdi_readback(ci, r) IN
       IF no_lock_stdi(post) \/ no_lock_sspd(ci, post)
       THEN [err |-> TRUE, stdi |-> s]
       ELSE IF s.lcf < 239 \/ s.bl < 8 \/ s.bl = 16383
       THEN [err |-> TRUE, stdi |-> ZeroStdi]
       ELSE [err |-> FALSE, stdi |-> s]


(* ----------------------------------------------------------------------- *)
(* Timing synthesis and comparison of the v4l2 core                         *)
(* ----------------------------------------------------------------------- *)

Result(t) == [ok |-> TRUE, t |-> t]
NoResult(t) == [ok |-> FALSE, t |-> t]

\* horizontal geometry and pixel clock a synthesis can come up with
SynthGeometries ==
  { [width |-> 1280, hfp |-> 48, hs |-> 32, hbp |-> 80, vbp |-> 20,
     pixelclock |-> 170000000],
    [width |-> 1920, hfp |-> 48, hs |-> 32, hbp |-> 80, vbp |-> 20,
     pixelclock |-> 172750000] }

SynthTiming(frame_height, vsync, polarities, std, g) ==
  BT(g.width, frame_height - 3 - vsync - g.vbp, polarities, g.pixelclock,
     g.hfp, g.hs, g.hbp, 3, vsync, g.vbp, std, 0)

\* v4l2_detect_cvt(): the outcomes it can have for these arguments
v4l2_detect_cvt(frame_height, hfreq, vsync, polarities, t) ==
  IF vsync < 4 \/ vsync > 7
     \/ polarities \notin {V4L2_DV_VSYNC_POS_POL, V4L2_DV_HSYNC_POS_POL}
  THEN { NoResult(t) }
  ELSE { NoResult(t) } \cup
       { Result(SynthTiming(frame_height, vsync, polarities,
                            V4L2_DV_BT_STD_CVT, g)) : g \in SynthGeometries }

\* v4l2_detect_gtf(): the outcomes it can have for these arguments
v4l2_detect_gtf(frame_height, hfreq, vsync, polarities, aspect, t) ==
  IF vsync # 3
     \/ polarities \notin {V4L2_DV_VSYNC_POS_POL, V4L2_DV_HSYNC_POS_POL}
  THEN { NoResult(t) }
  ELSE { NoResult(t) } \cup
       { Result(SynthTiming(frame_height, vsync, polarities,
                            V4L2_DV_BT_STD_GTF, g)) : g \in SynthGeometries }

\* v4l_match_dv_timings(t1, t2, pclock_delta)
v4l_match_dv_timings(t1, t2, pclock_delta) ==
  /\ t1.width = t2.width
  /\ t1.height = t2.height
  /\ t1.interlaced = t2.interlaced
  /\ t1.polarities = t2.polarities
  /\ t1.pixelclock >= t2.pixelclock - pclock_delta
  /\ t1.pixelclock <= t2.pixelclock + pclock_delta
  /\ t1.hfrontporch = t2.hfrontporch
  /\ t1.vfrontporch = t2.vfrontporch
  /\ t1.vsync = t2.vsync
  /\ t1.vbackporch = t2.vbackporch
  /\ (t1.interlaced = 0
      \/ (/\ t1.il_vfrontporch = t2.il_vfrontporch
          /\ t1.il_vsync = t2.il_vsync
          /\ t1.il_vbackporch = t2.il_vbackporch))

\* v4l2_calc_aspect_ratio(hor_landscape, vert_portrait)
v4l2_calc_aspect_ratio(hor_landscape, vert_portrait) ==
  IF hor_landscape = 0 /\ vert_portrait = 0
  THEN [numerator |-> 16, denominator |-> 9]
  ELSE IF hor_landscape # 0 /\ vert_portrait # 0
  THEN [numerator |-> hor_landscape, denominator |-> vert_portrait]
  ELSE LET ratio == hor_landscape + vert_portrait
           a == IF ratio = 79 THEN [numerator |-> 16, denominator |-> 9]
                ELSE IF ratio = 34 THEN [numerator |-> 4, denominator |-> 3]
                ELSE IF ratio = 68 THEN [numerator |-> 15, denominator |-> 9]
                ELSE [numerator |-> hor_landscape + 99, denominator |-> 100]
       IN IF hor_landscape # 0 THEN a
          ELSE [numerator |-> a.denominator, denominator |-> a.numerator]

(* ----------------------------------------------------------------------- *)
(* TimingResolver                                                           *)
(* ----------------------------------------------------------------------- *)

stdi_hfreq(stdi) == (ADV7604_fsc * 8) \div stdi.bl

stdi_polarities(stdi) ==
  (IF stdi.hs_pol = "+" THEN V4L2_DV_HSYNC_POS_POL ELSE 0) +
  (IF stdi.vs_pol = "+" THEN V4L2_DV_VSYNC_POS_POL ELSE 0)

\* the test of one table entry in the loop of stdi2dv_timings
stdi_entry_matches(stdi, entry) ==
  /\ vtotal(entry) = stdi.lcf + 1
  /\ entry.vsync = stdi.lcvs
  /\ LET pix_clk == mul_u32(stdi_hfreq(stdi), htotal(entry)) IN
       /\ u32_less(pix_clk, entry.pixelclock + AnalogPclockDelta)
       /\ u32_greater(pix_clk, entry.pixelclock - AnalogPclockDelta)

RECURSIVE stdi_table_scan(_, _)
stdi_table_scan(stdi, i) ==
  IF i > Len(adv7604_timings) THEN 0
  ELSE IF stdi_entry_matches(stdi, adv7604_timings[i]) THEN i
  ELSE stdi_table_scan(stdi, i + 1)

\* stdi2dv_timings(): the results it can have; t is *timings at entry
stdi2dv_timings(stdi, aspect, t) ==
  LET i == stdi_table_scan(stdi, 1) IN
  IF i # 0 THEN { Result(adv7604_timings[i]) }
  ELSE LET cvt == v4l2_detect_cvt(stdi.lcf + 1, stdi_hfreq(stdi), stdi.lcvs,
                                  stdi_polarities(stdi), t)
           gtf == v4l2_detect_gtf(stdi.lcf + 1, stdi_hfreq(stdi), stdi.lcvs,
                                  stdi_polarities(stdi), aspect, t)
       IN { r \in cvt : r.ok } \cup
          (IF NoResult(t) \in cvt THEN gtf ELSE {})

\* variant: the shorter vsync is tried before the longer one
stdi_lcvs_attempt_minus_first(stdi, n) ==
  IF n = 1 THEN stdi.lcvs
  ELSE IF n = 2 THEN U16(stdi.lcvs + 65536 - 1)
  ELSE U16(U16(stdi.lcvs + 65536 - 1) + 2)

\* the lcvs values of the three attempts (u16 arithmetic)
stdi_lcvs_attempt(stdi, n) ==
  IF n = 1 THEN stdi.lcvs
  ELSE IF n = 2 THEN U16(stdi.lcvs + 1)
  ELSE U16(U16(stdi.lcvs + 1) + 65536 - 2)

stdi_attempt(stdi, n) == [stdi EXCEPT !.lcvs = stdi_lcvs_attempt(stdi, n)]

\* the readbacks handed to the first n calls of stdi2dv_timings
stdi_tries(stdi, n) == [ k \in 1 .. n |-> stdi_attempt(stdi, k) ]

\* the three calls of stdi2dv_timings in query_dv_timings:
\* attempt is the call that found a format, 0 when all three failed
stdi_resolve(stdi, aspect, t) ==
  LET r1 == stdi2dv_timings(stdi_attempt(stdi, 1), aspect, t)
      r2 == stdi2dv_timings(stdi_attempt(stdi, 2), aspect, t)
      r3 == stdi2dv_timings(stdi_attempt(stdi, 3), aspect, t)
      Found(n, rs) == { [attempt |-> n, t |-> r.t, tries |-> stdi_tries(stdi, n)] :
                          r \in { x \in rs : x.ok } }
  IN Found(1, r1) \cup
     (IF NoResult(t) \in r1
      THEN Found(2, r2) \cup
           (IF NoResult(t) \in r2
            THEN Found(3, r3) \cup
                 (IF NoResult(t) \in r3
                  THEN { [attempt |-> 0, t |-> t,
                          tries |-> stdi_tries(stdi, 3)] }
                  ELSE {})
            ELSE {})
      ELSE {})

\* the STDI restart: one-shot, trigger, back to continuous mode
stdi_restart_values == << 0, 4, 2 >>

RECURSIVE stdi_restart(_, _)
stdi_restart(r, i) ==
  IF i > Len(stdi_restart_values) THEN [regs |-> r, writes |-> << >>]
  ELSE LET r1 == write_and_or(r, Reg_CP_86, 249, stdi_restart_values[i])
           rest == stdi_restart(r1, i + 1)
       IN [regs |-> rest.regs, writes |-> << r1[Reg_CP_86] >> \o rest.writes]

\* variant: the flag is not cleared by the restart
restart_stdi_once_sticky(attempt, flag) ==
  IF attempt = 3 THEN TRUE ELSE flag

\* state->restart_stdi_once when query_dv_timings leaves the analog branch
restart_stdi_once_next(attempt, flag) ==
  IF attempt = 0 THEN FALSE
  ELSE IF attempt = 3 THEN TRUE
  ELSE flag

\* adv7604_fill_optional_dv_timings_fields()
RECURSIVE fill_optional_scan(_, _, _)
fill_optional_scan(t, delta, i) ==
  IF i > Len(adv7604_timings) THEN t
  ELSE IF v4l_match_dv_timings(t, adv7604_timings[i], delta)
  THEN adv7604_timings[i]
  ELSE fill_optional_scan(t, delta, i + 1)

adv7604_fill_optional_dv_timings_fields(m, t) ==
  fill_optional_scan(t, IF DIGITAL_INPUT(m) THEN DigitalPclockDelta
                        ELSE AnalogPclockDelta, 1)

\* variant: the limit itself is refused
pixelclock_at_or_over_range(m, pixelclock) ==
  \/ (m # ADV7604_MODE_HDMI /\ pixelclock >= AnalogMaxPixelclock)
  \/ (m = ADV7604_MODE_HDMI /\ pixelclock >= DigitalMaxPixelclock)

\* the pixel clock test at the end of query_dv_timings and in s_dv_timings
pixelclock_out_of_range(m, pixelclock) ==
  \/ (m # ADV7604_MODE_HDMI /\ pixelclock > AnalogMaxPixelclock)
  \/ (m = ADV7604_MODE_HDMI /\ pixelclock > DigitalMaxPixelclock)

\* variant: the resolved timings are left in *timings
timings_kept_on_signal_lost(t) == t

\* what *timings holds when the signal is lost during readout
timings_on_signal_lost(t) == ZeroTimings


(* ----------------------------------------------------------------------- *)
(* Digital readout                                                          *)
(* ----------------------------------------------------------------------- *)

\* register pairs of the HDMI map as one readout finds them; pa and pb are
\* the two bytes the variant's read_hdmi_pixelclock reads
HdmiRegs(w, hh, h1, a, b, hfp, hs, hbp, vfp, vs, vbp, ivfp, ivs, ivbp, r05) ==
  [ r07 |-> w, r09 |-> hh, r0b |-> h1, pa |-> a, pb |-> b,
    r20 |-> hfp, r22 |-> hs, r24 |-> hbp,
    r2a |-> vfp, r2e |-> vs, r32 |-> vbp,
    r2c |-> ivfp, r30 |-> ivs, r34 |-> ivbp, r05 |-> r05 ]

HdmiRegSet ==
  { HdmiRegs(1280, 720, 0,  74,  16, 110, 40, 220, 10, 10, 40, 0, 0, 0, 48),
    HdmiRegs(1280, 720, 0,  37,  32, 110, 40, 220, 10, 10, 40, 0, 0, 0, 48),
    HdmiRegs(1920, 1200, 0, 225,  0,  48, 32,  80,  6, 12, 52, 0, 0, 0, 32),
    HdmiRegs(1920, 1200, 0, 225, 16,  48, 32,  80,  6, 12, 52, 0, 0, 0, 32),
    HdmiRegs(1920, 1200, 0, 112, 128, 48, 32,  80,  6, 12, 52, 0, 0, 0, 32),
    HdmiRegs(1920, 1200, 0, 112, 129, 48, 32,  80,  6, 12, 52, 0, 0, 0, 32),
    HdmiRegs(61440 + 1920, 540, 540, 74, 16, 88, 44, 148, 4, 10, 30, 5, 10, 31, 48),
    HdmiRegs(1440, 240, 240, 27, 0, 38, 124, 114, 8, 6, 30, 10, 8, 36, 0) }

\* no readout of the HDMI map
NoHdmiRegs == HdmiRegs(0, 0, 0, 0, 0, 0, 0, 0, 0, 0, 0, 0, 0, 0, 0)

\* hdmi_read16(sd, reg, mask) on a register pair
hdmi_read16(v, mask) == BitAnd(v, mask)

adv7604_read_hdmi_pixelclock(a, b) ==
  a * 1000000 + (BitAnd(b, 48) \div 16) * 250000

adv7611_read_hdmi_pixelclock(a, b) ==
  BitOr(a * 2, b \div 128) * 1000000 + (BitAnd(b, 127) * 1000000) \div 128

read_hdmi_pixelclock(c, a, b) ==
  IF c = ADV7604 THEN adv7604_read_hdmi_pixelclock(a, b)
  ELSE adv7611_read_hdmi_pixelclock(a, b)

\* the DIGITAL_INPUT branch of query_dv_timings, before fill_optional
hdmi_timings(c, hr, interlaced) ==
  LET t0 == [ ZeroTimings EXCEPT
                !.interlaced = IF interlaced THEN 1 ELSE 0,
                !.width = hdmi_read16(hr.r07, 4095),
                !.height = hdmi_read16(hr.r09, 4095),
                !.pixelclock = read_hdmi_pixelclock(c, hr.pa, hr.pb),
                !.hfrontporch = hdmi_read16(hr.r20, 1023),
                !.hsync = hdmi_read16(hr.r22, 1023),
                !.hbackporch = hdmi_read16(hr.r24, 1023),
                !.vfrontporch = hdmi_read16(hr.r2a, 8191) \div 2,
                !.vsync = hdmi_read16(hr.r2e, 8191) \div 2,
                !.vbackporch = hdmi_read16(hr.r32, 8191) \div 2,
                !.polarities =
                   (IF BitAnd(hr.r05, 16) # 0 THEN V4L2_DV_VSYNC_POS_POL ELSE 0) +
                   (IF BitAnd(hr.r05, 32) # 0 THEN V4L2_DV_HSYNC_POS_POL ELSE 0) ]
  IN IF interlaced
     THEN [ t0 EXCEPT
              !.height = t0.height + hdmi_read16(hr.r0b, 4095),
              !.il_vfrontporch = hdmi_read16(hr.r2c, 8191) \div 2,
              !.il_vsync = hdmi_read16(hr.r30, 8191) \div 2,
              !.vbackporch = hdmi_read16(hr.r34, 8191) \div 2 ]
     ELSE t0

(* ----------------------------------------------------------------------- *)
(* adv7604_query_dv_timings                                                 *)
(* ----------------------------------------------------------------------- *)

\* EDID buffers a caller passes: a tag for the contents of its blocks and
\* bytes 0x15 and 0x16 of block 0; tag 0 is the NULL pointer
NullEdid == [tag |-> 0, b15 |-> 0, b16 |-> 0]

EdidBlobs == { [tag |-> 1, b15 |-> 52, b16 |-> 29] }

\* variant: the aspect ratio is left as it was
keep_aspect_ratio(old) == old

\* state->aspect_ratio in the blocks == 0 branch
clear_aspect_ratio(old) == [numerator |-> 16, denominator |-> 9]

ChipTypes == {ADV7604, ADV7611}

\* values state->mode takes: s_routing stores its input unchecked on a chip
\* with an analog front end
ModeValues == 0 .. 3

\* values state->aspect_ratio takes: zero from kzalloc, 16:9 from the clear
\* branch of set_edid, the EDID's ratio from the program branch
AspectValues ==
  { [numerator |-> 0, denominator |-> 0], clear_aspect_ratio(0) } \cup
  { v4l2_calc_aspect_ratio(b.b15, b.b16) : b \in EdidBlobs }

\* the values no_signal() can return, over the status the chip can present
NoSignalTable ==
  { << c, m, no_signal(adv7604_chip_info[c], m, s) >> :
      c \in ChipTypes, m \in ModeValues, s \in StatusSet }

NoSignalReads == { x[3] : x \in { y \in NoSignalTable :
                                    y[1] = chip /\ y[2] = mode } }

\* the results read_stdi() can have, over the lock status before and after
\* the readout and the register contents
\* a readout the chip reports as saturated or too short, or one taken with
\* the lock predicates true before or after it
stdi_sample_unusable(ci, pre, r, post) ==
  \/ no_lock_stdi(pre) \/ no_lock_sspd(ci, pre)
  \/ no_lock_stdi(post) \/ no_lock_sspd(ci, post)
  \/ (r.b1 % 64) * 256 + r.b2 = 16383
  \/ (r.lcf_hi % 8) * 256 + r.lcf_lo < 239

StdiReadTable ==
  { << c, stdi_sample_unusable(adv7604_chip_info[c], pre, r, post),
       read_stdi(adv7604_chip_info[c], pre, r, post) >> :
      c \in ChipTypes, pre \in StatusSet, r \in StdiRegSet,
      post \in StatusSet }

StdiReads ==
  { [unusable |-> x[2], rd |-> x[3], entry |-> 0] :
      x \in { y \in StdiReadTable : y[1] = chip } }

\* *timings when the analog branch starts: cleared, interlaced set from stdi
analog_entry_timings(stdi) ==
  [ZeroTimings EXCEPT !.interlaced = IF stdi.interlaced THEN 1 ELSE 0]

\* the outcomes of the analog branch for every readout and aspect ratio
AnalogTable ==
  UNION { { << x[3].stdi, a, r >> :
              r \in stdi_resolve(x[3].stdi, a, analog_entry_timings(x[3].stdi)) } :
          x \in { y \in StdiReadTable : ~y[3].err }, a \in AspectValues }

AnalogOutcomes(stdi, aspect) ==
  { x[3] : x \in { y \in AnalogTable : y[1] = stdi /\ y[2] = aspect } }

\* the outcomes of the digital branch for every register content
DigitalTable ==
  { << c, il, adv7604_fill_optional_dv_timings_fields(
                ADV7604_MODE_HDMI, hdmi_timings(c, hr, il)), hr >> :
      c \in ChipTypes, il \in BOOLEAN, hr \in HdmiRegSet }

DigitalOutcomes(c, il) ==
  { [t |-> x[3], hdmi |-> x[4]] :
      x \in { y \in DigitalTable : y[1] = c /\ y[2] = il } }

QueryFacts ==
  [ path |-> "none", nosig_entry |-> FALSE, found |-> FALSE,
    nosig_exit |-> FALSE, resolved |-> ZeroTimings, attempt |-> 0,
    cp86w |-> << >>, flag_before |-> FALSE, digital |-> FALSE,
    unusable |-> FALSE, entry |-> 0,
    aspect |-> [numerator |-> 0, denominator |-> 0],
    stdi |-> ZeroStdi, tries |-> << >>, hdmi |-> NoHdmiRegs ]

\* routed: accepted s_routing calls in a row with the same input, up to 2;
\* set_arg, set_mode: the argument of the last s_dv_timings call that
\* returned 0 and the input mode it ran in
HistoryInit ==
  [ fails |-> 0, total |-> 0, restarts |-> 0, routed |-> 0,
    set_arg |-> ZeroTimings, set_mode |-> ADV7604_MODE_COMP ]

Sat(n) == Min(n, MaxFails)

\* history after an analog resolution: attempt 0 is a failing detection
history_next(hh, attempt, restarted) ==
  IF attempt = 0
  THEN [ hh EXCEPT !.fails = Sat(hh.fails + 1),
                   !.total = Sat(hh.total + 1),
                   !.restarts = Sat(hh.restarts + (IF restarted THEN 1 ELSE 0)) ]
  ELSE [ hh EXCEPT !.fails = 0, !.restarts = 0 ]

QueryReturn(rt, o, qq, fl, rg, hh) ==
  /\ op' = "query_dv_timings"
  /\ ret' = rt
  /\ out' = o
  /\ q' = qq
  /\ restart_stdi_once' = fl
  /\ regs' = rg
  /\ h' = [hh EXCEPT !.routed = 0]
  /\ UNCHANGED << chip, mode, timings, edid, edid_blocks, aspect_ratio,
                  hotplug, work, pc, e, edid_out >>
  /\ UNCHANGED auxVars

\* from the label found: to the return
QueryFound(t, qq, fl, hh) ==
  \E ns \in NoSignalReads :
    LET q2 == [qq EXCEPT !.found = TRUE, !.nosig_exit = ns, !.resolved = t]
    IN IF ns
       THEN QueryReturn(-ENOLINK, timings_on_signal_lost(t), q2, fl, regs, hh)
       ELSE IF pixelclock_out_of_range(mode, t.pixelclock)
       THEN QueryReturn(-ERANGE, t, q2, fl, regs, hh)
       ELSE QueryReturn(0, t, q2, fl, regs, hh)

\* variant: the digital branch runs the restart protocol of the analog one
QueryDigitalRestarting(stdi, qq) ==
  \E d \in DigitalOutcomes(chip, stdi.interlaced) :
    IF pixelclock_out_of_range(mode, d.t.pixelclock) /\ restart_stdi_once
    THEN LET rs == stdi_restart(regs, 1) IN
         QueryReturn(-ENOLINK, d.t,
                     [qq EXCEPT !.path = "digital", !.cp86w = rs.writes,
                                !.hdmi = d.hdmi],
                     FALSE, rs.regs, h)
    ELSE QueryFound(d.t, [qq EXCEPT !.path = "digital", !.hdmi = d.hdmi],
                    TRUE, h)

QueryDigital(stdi, qq) ==
  \E d \in DigitalOutcomes(chip, stdi.interlaced) :
    QueryFound(d.t, [qq EXCEPT !.path = "digital", !.hdmi = d.hdmi],
               restart_stdi_once, h)

\* variant: a zero ratio is replaced by 16:9 before the call
gtf_aspect_or_default(a) ==
  IF a.numerator = 0 \/ a.denominator = 0
  THEN [numerator |-> 16, denominator |-> 9] ELSE a

\* state->aspect_ratio as stdi2dv_timings hands it to v4l2_detect_gtf
gtf_aspect(a) == a

QueryAnalog(stdi, qq, Outcomes(_, _)) ==
  \E r \in Outcomes(stdi, gtf_aspect(aspect_ratio)) :
       LET fl == restart_stdi_once_next(r.attempt, restart_stdi_once)
           qa == [qq EXCEPT !.aspect = gtf_aspect(aspect_ratio),
                            !.stdi = stdi, !.tries = r.tries]
       IN
       IF r.attempt = 0
       THEN IF restart_stdi_once
            THEN LET rs == stdi_restart(regs, 1) IN
                 QueryReturn(-ENOLINK, r.t,
                             [qa EXCEPT !.path = "fail", !.cp86w = rs.writes],
                             fl, rs.regs, history_next(h, 0, TRUE))
            ELSE QueryReturn(-ERANGE, r.t, [qa EXCEPT !.path = "fail"],
                             restart_stdi_once, regs, history_next(h, 0, FALSE))
       ELSE QueryFound(r.t,
                       [qa EXCEPT !.path = "analog", !.attempt = r.attempt],
                       fl, history_next(h, r.attempt, FALSE))

\* adv7604_query_dv_timings over the readouts reads, whose analog
\* resolutions are Outcomes
QueryCall(reads, Outcomes(_, _)) ==
  /\ pc = "idle"
  /\ \E ns0 \in NoSignalReads :
       LET q0 == [QueryFacts EXCEPT !.nosig_entry = ns0,
                                    !.flag_before = restart_stdi_once,
                                    !.digital = DIGITAL_INPUT(mode)]
       IN IF ns0
          THEN QueryReturn(-ENOLINK, ZeroTimings, [q0 EXCEPT !.path = "nosignal"],
                           restart_stdi_once, regs, h)
          ELSE \E sr \in reads :
                 LET rd == sr.rd
                     q1 == [q0 EXCEPT !.unusable = sr.unusable,
                                      !.entry = sr.entry]
                 IN IF rd.err
                    THEN QueryReturn(-ENOLINK, ZeroTimings,
                                     [q1 EXCEPT !.path = "nostdi"],
                                     restart_stdi_once, regs, h)
                    ELSE IF DIGITAL_INPUT(mode)
                    THEN QueryDigital(rd.stdi, q1)
                    ELSE QueryAnalog(rd.stdi, q1, Outcomes)

QueryDvTimings == QueryCall(StdiReads, AnalogOutcomes)

\* the STDI registers of a signal with the timings of a table entry: lcf is
\* the line count less one, lcvs the vsync width, bl the count of 8 fsc
\* periods in one line rounded down (up = 0) or up (up = 1), the sync
\* polarities those of the entry
TableRegs(entry, up) ==
  LET hfreq == entry.pixelclock \div htotal(entry)
      hpos == BitAnd(entry.polarities, V4L2_DV_HSYNC_POS_POL) # 0
      vpos == BitAnd(entry.polarities, V4L2_DV_VSYNC_POS_POL) # 0
  IN StdiRegs((ADV7604_fsc * 8) \div hfreq + up, vtotal(entry) - 1,
              entry.vsync, FALSE,
              81 + (IF hpos THEN 8 ELSE 0) + (IF vpos THEN 32 ELSE 0),
              (IF hpos THEN 32 ELSE 0) + (IF vpos THEN 16 ELSE 0))

\* read_stdi() of these registers with the locks held
TableReadTable ==
  { << c, i, read_stdi(adv7604_chip_info[c], StatusGood,
                       TableRegs(adv7604_timings[i], up), StatusGood) >> :
      c \in ChipTypes, i \in 1 .. Len(adv7604_timings), up \in {0, 1} }

TableReads ==
  { [unusable |-> FALSE, rd |-> x[3], entry |-> x[2]] :
      x \in { y \in TableReadTable : y[1] = chip } }

TableMatchTable ==
  UNION { { << x[3].stdi, a, r >> :
              r \in stdi_resolve(x[3].stdi, a, analog_entry_timings(x[3].stdi)) } :
          x \in { y \in TableReadTable : ~y[3].err }, a \in AspectValues }

TableOutcomes(stdi, aspect) ==
  { x[3] : x \in { y \in TableMatchTable : y[1] = stdi /\ y[2] = aspect } }

\* adv7604_query_dv_timings in an analog mode while the source sends the
\* timings of a table entry
QueryTableSample ==
  /\ ~DIGITAL_INPUT(mode)
  /\ QueryCall(TableReads, TableOutcomes)

\* readouts with a block length of 28: a line of 224 fsc periods, 625 lines,
\* vsync 3 or 4 lines wide
ShortLineReadTable ==
  { << c, read_stdi(adv7604_chip_info[c], StatusGood,
                    StdiRegs(28, 624, lcvs, FALSE, 249, 48), StatusGood) >> :
      c \in ChipTypes, lcvs \in {3, 4} }

ShortLineReads ==
  { [unusable |-> FALSE, rd |-> x[2], entry |-> 0] :
      x \in { y \in ShortLineReadTable : y[1] = chip } }

ShortLineTable ==
  UNION { { << x[2].stdi, a, r >> :
              r \in stdi_resolve(x[2].stdi, a, analog_entry_timings(x[2].stdi)) } :
          x \in { y \in ShortLineReadTable : ~y[2].err }, a \in AspectValues }

ShortLineOutcomes(stdi, aspect) ==
  { x[3] : x \in { y \in ShortLineTable : y[1] = stdi /\ y[2] = aspect } }

\* adv7604_query_dv_timings in an analog mode with such a readout
QueryShortLine ==
  /\ ~DIGITAL_INPUT(mode)
  /\ QueryCall(ShortLineReads, ShortLineOutcomes)

(* ----------------------------------------------------------------------- *)
(* ModeConfigurator: adv7604_s_routing                                      *)
(* ----------------------------------------------------------------------- *)

HdmiReg(o) == ADV7604_REG(ADV7604_PAGE_HDMI, o)
AfeReg(o) == ADV7604_REG(ADV7604_PAGE_AFE, o)
CpReg(o) == ADV7604_REG(ADV7604_PAGE_CP, o)
IoReg(o) == ADV7604_REG(ADV7604_PAGE_IO, o)
RepReg(o) == ADV7604_REG(ADV7604_PAGE_REP, o)

adv7604_recommended_settings_afe ==
  << << HdmiReg(13), 4 >>, << HdmiReg(13), 4 >>, << HdmiReg(61), 0 >>,
     << HdmiReg(62), 116 >>, << HdmiReg(78), 59 >>, << HdmiReg(87), 116 >>,
     << HdmiReg(88), 99 >>, << HdmiReg(141), 24 >>, << HdmiReg(142), 52 >>,
     << HdmiReg(147), 136 >>, << HdmiReg(148), 46 >>, << HdmiReg(150), 0 >>,
     << AfeReg(18), 123 >>, << AfeReg(12), 31 >>, << CpReg(62), 4 >>,
     << CpReg(195), 57 >>, << CpReg(64), 92 >> >>

adv7604_recommended_settings_hdmi ==
  << << HdmiReg(13), 132 >>, << HdmiReg(61), 16 >>, << HdmiReg(62), 57 >>,
     << HdmiReg(78), 59 >>, << HdmiReg(87), 182 >>, << HdmiReg(88), 3 >>,
     << HdmiReg(141), 24 >>, << HdmiReg(142), 52 >>, << HdmiReg(147), 139 >>,
     << HdmiReg(148), 45 >>, << HdmiReg(150), 1 >>,
     << AfeReg(18), 251 >>, << AfeReg(12), 13 >> >>

adv7611_recommended_settings_hdmi ==
  << << CpReg(108), 0 >>, << HdmiReg(111), 12 >>, << HdmiReg(135), 112 >>,
     << HdmiReg(87), 218 >>, << HdmiReg(88), 1 >>, << HdmiReg(3), 152 >>,
     << HdmiReg(76), 68 >>, << HdmiReg(141), 4 >>, << HdmiReg(142), 30 >> >>

\* info->recommended_settings[i]
recommended_settings(i) ==
  IF chip = ADV7604
  THEN (IF i = 0 THEN adv7604_recommended_settings_afe
        ELSE adv7604_recommended_settings_hdmi)
  ELSE (IF i = 0 THEN << >> ELSE adv7611_recommended_settings_hdmi)

SeqRegs(sq) == { sq[i][1] : i \in 1 .. Len(sq) }

\* the registers the model keeps
RegSet ==
  UNION { SeqRegs(adv7604_recommended_settings_afe),
          SeqRegs(adv7604_recommended_settings_hdmi),
          SeqRegs(adv7611_recommended_settings_hdmi),
          { IoReg(0), IoReg(1), IoReg(2), IoReg(22), IoReg(23),
            CpReg(129), CpReg(143), CpReg(144), CpReg(145), CpReg(162),
            CpReg(163), CpReg(164), CpReg(165), CpReg(166), CpReg(167),
            CpReg(171), CpReg(172) },
          { IoReg(21), HdmiReg(26), HdmiReg(1), HdmiReg(131),
            AfeReg(0), AfeReg(1), AfeReg(200),
            CpReg(62), CpReg(195), CpReg(64), CpReg(134),
            RepReg(0), RepReg(116) } }

\* adv7604_write_reg(): a page outside the page mask is not written
adv7604_write_reg(r, reg, val) ==
  IF BitAnd(2 ^ (reg \div 256), info.page_mask) = 0 THEN r
  ELSE write_reg(r, reg, val)

RECURSIVE adv7604_write_reg_seq(_, _, _)
adv7604_write_reg_seq(r, sq, i) ==
  IF i > Len(sq) THEN r
  ELSE adv7604_write_reg_seq(adv7604_write_reg(r, sq[i][1], sq[i][2]), sq, i + 1)

\* variant: the termination is switched over, whatever enable says
set_termination_toggle(r, enable) ==
  IF chip = ADV7604
  THEN write_reg(r, HdmiReg(1), IF r[HdmiReg(1)] = 120 THEN 0 ELSE 120)
  ELSE write_reg(r, HdmiReg(131), IF r[HdmiReg(131)] = 255 THEN 254 ELSE 255)

set_termination(r, enable) ==
  IF chip = ADV7604
  THEN write_reg(r, HdmiReg(1), IF enable THEN 0 ELSE 120)
  ELSE write_reg(r, HdmiReg(131), IF enable THEN 254 ELSE 255)

disable_input(r) ==
  set_termination(write_reg(write_reg(r, IoReg(21), 190), HdmiReg(26), 26),
                  FALSE)

select_input(r, m) ==
  IF m \in {ADV7604_MODE_COMP, ADV7604_MODE_GR}
  THEN LET r1 == adv7604_write_reg_seq(r, recommended_settings(0), 1)
       IN write_reg(write_reg(write_reg(r1, AfeReg(0), 8), AfeReg(1), 6),
                    AfeReg(200), 0)
  ELSE IF m = ADV7604_MODE_HDMI
  THEN LET r1 == adv7604_write_reg_seq(r, recommended_settings(1), 1)
           r2 == IF adv7604_has_afe(info)
                 THEN write_reg(write_reg(write_reg(r1, AfeReg(0), 255),
                                          AfeReg(1), 254), AfeReg(200), 64)
                 ELSE r1
       IN write_reg(write_reg(write_reg(r2, CpReg(62), 0), CpReg(195), 57),
                    CpReg(64), 128)
  ELSE r

enable_input(r, m) ==
  IF m \in {ADV7604_MODE_COMP, ADV7604_MODE_GR}
  THEN write_reg(r, IoReg(21), 176)
  ELSE IF m = ADV7604_MODE_HDMI
  THEN write_reg(set_termination(write_reg(r, HdmiReg(26), 10), TRUE),
                 IoReg(21), 160)
  ELSE r

\* the register writes of set_termination, disable_input, select_input and
\* enable_input as pairs of register and value, in the order they are made
set_termination_writes(enable) ==
  IF chip = ADV7604
  THEN << << HdmiReg(1), IF enable THEN 0 ELSE 120 >> >>
  ELSE << << HdmiReg(131), IF enable THEN 254 ELSE 255 >> >>

disable_input_writes ==
  << << IoReg(21), 190 >>, << HdmiReg(26), 26 >> >> \o
  set_termination_writes(FALSE)

select_input_writes(m) ==
  IF m \in {ADV7604_MODE_COMP, ADV7604_MODE_GR}
  THEN recommended_settings(0) \o
       << << AfeReg(0), 8 >>, << AfeReg(1), 6 >>, << AfeReg(200), 0 >> >>
  ELSE IF m = ADV7604_MODE_HDMI
  THEN recommended_settings(1) \o
       (IF adv7604_has_afe(info)
        THEN << << AfeReg(0), 255 >>, << AfeReg(1), 254 >>,
                << AfeReg(200), 64 >> >>
        ELSE << >>) \o
       << << CpReg(62), 0 >>, << CpReg(195), 57 >>, << CpReg(64), 128 >> >>
  ELSE << >>

enable_input_writes(m) ==
  IF m \in {ADV7604_MODE_COMP, ADV7604_MODE_GR}
  THEN << << IoReg(21), 176 >> >>
  ELSE IF m = ADV7604_MODE_HDMI
  THEN << << HdmiReg(26), 10 >> >> \o set_termination_writes(TRUE) \o
       << << IoReg(21), 160 >> >>
  ELSE << >>

\* variant: the outputs are enabled before the mode is selected
s_routing_writes_enable_first(input) ==
  disable_input_writes \o enable_input_writes(input) \o
  select_input_writes(input)

\* the writes of an accepted adv7604_s_routing call
s_routing_writes(input) ==
  disable_input_writes \o select_input_writes(input) \o
  enable_input_writes(input)

\* the registers of the lock predicates before any was read
ZeroStatus == [io0c |-> 0, cpb1 |-> 0, cpb5 |-> 0, io6a |-> 0, io12 |-> 0]

BusInit ==
  [ reg |-> 0, val |-> 0, xfers |-> << >>, notify |-> << >>,
    handled_in |-> "null", handled |-> "null", st |-> ZeroStatus,
    writes |-> << >> ]

\* values of the u32 input argument that are tried
RoutingInputs == 0 .. 3

(* ----------------------------------------------------------------------- *)
(* Register access layer                                                    *)
(* ----------------------------------------------------------------------- *)

\* one i2c_smbus_xfer() call: the client addressed, the direction, the
\* command byte, the data byte (the byte read, the byte or length written)
\* and the value the call returned
Xfer(client, dir, command, value, err) ==
  [ client |-> client, dir |-> dir, command |-> command, value |-> value,
    err |-> err ]

\* values i2c_smbus_xfer() returns
XferResults == {0, -EIO}

\* adv_smbus_read_byte_data_check(): one transfer, data.byte or -EIO
adv_smbus_read_byte_data(client, command, err, byte) ==
  [ ret |-> IF err = 0 THEN byte ELSE -EIO,
    xfers |-> << Xfer(client, "read", command, byte, err) >> ]

\* the bound of the loop of adv_smbus_write_byte_data()
smbus_write_attempts == 3

\* the loop of adv_smbus_write_byte_data(): errs[i + 1] is what transfer i
\* returns
RECURSIVE smbus_write_loop(_, _, _, _, _, _, _)
smbus_write_loop(client, command, value, errs, i, err, log) ==
  IF i < smbus_write_attempts
  THEN LET er == errs[i + 1]
           lg == Append(log, Xfer(client, "write", command, value, er))
       IN IF er = 0 THEN [ret |-> er, xfers |-> lg]
          ELSE smbus_write_loop(client, command, value, errs, i + 1, er, lg)
  ELSE [ret |-> err, xfers |-> log]

adv_smbus_write_byte_data(client, command, value, errs) ==
  smbus_write_loop(client, command, value, errs, 0, 0, << >>)

\* adv_smbus_write_i2c_block_data(): one transfer of at most
\* I2C_SMBUS_BLOCK_MAX bytes
adv_smbus_write_i2c_block_data(client, command, length, err) ==
  [ ret |-> err,
    xfers |-> << Xfer(client, "write_block", command,
                      Min(length, I2C_SMBUS_BLOCK_MAX), err) >> ]

\* the i2c client each case of the switch of adv7604_read_reg() and
\* adv7604_write_reg() hands the access to
page_client ==
  (ADV7604_PAGE_IO :> "client") @@
  (ADV7604_PAGE_AVLINK :> "i2c_avlink") @@
  (ADV7604_PAGE_CEC :> "i2c_cec") @@
  (ADV7604_PAGE_INFOFRAME :> "i2c_infoframe") @@
  (ADV7604_PAGE_ESDP :> "i2c_esdp") @@
  (ADV7604_PAGE_DPP :> "i2c_dpp") @@
  (ADV7604_PAGE_AFE :> "i2c_afe") @@
  (ADV7604_PAGE_REP :> "i2c_repeater") @@
  (ADV7604_PAGE_EDID :> "i2c_edid") @@
  (ADV7604_PAGE_HDMI :> "i2c_hdmi") @@
  (ADV7604_PAGE_TEST :> "i2c_test") @@
  (ADV7604_PAGE_CP :> "i2c_cp") @@
  (ADV7604_PAGE_VDP :> "i2c_vdp")

RECURSIVE ShiftRight(_, _)
ShiftRight(x, n) == IF n = 0 \/ x = 0 THEN x ELSE ShiftRight(x \div 2, n - 1)

\* variant: every page passes the test
page_in_mask_any(ci, page) == TRUE

\* BIT(page) & info->page_mask, for a shift count below the width of long
page_in_mask(ci, page) == ShiftRight(ci.page_mask, page) % 2 = 1

\* BITS_PER_LONG of the builds
BitsPerLong == {32, 64}

\* what the page test can evaluate to: a shift by the width of long or more
\* is undefined, and the test can then come out either way
page_test_outcomes(ci, page, bpl) ==
  IF page < bpl THEN {page_in_mask(ci, page)} ELSE BOOLEAN

NotSupported == [ret |-> -EINVAL, xfers |-> << >>]

\* adv7604_read_reg(); hit is the outcome of the page test
adv7604_read_reg(reg, hit, err, byte) ==
  LET page == reg \div 256
      offset == reg % 256
  IN IF ~hit THEN NotSupported
     ELSE IF page \in DOMAIN page_client
     THEN adv_smbus_read_byte_data(page_client[page], offset, err, byte)
     ELSE NotSupported

\* adv7604_write_reg() with its bus transfers
adv7604_write_reg_xfer(reg, val, hit, errs) ==
  LET page == reg \div 256
      offset == reg % 256
  IN IF ~hit THEN NotSupported
     ELSE IF page \in DOMAIN page_client
     THEN adv_smbus_write_byte_data(page_client[page], offset, val, errs)
     ELSE NotSupported

\* register addresses the debug interface is called with: offsets on present
\* and absent pages, pages past the last one, and pages at and past the
\* widths of long
RegisterArgs ==
  { ADV7604_REG(p, o) :
      p \in {ADV7604_PAGE_IO, ADV7604_PAGE_AVLINK, ADV7604_PAGE_AFE,
             ADV7604_PAGE_TEST, ADV7604_PAGE_VDP, 13, 31, 32, 45, 64, 77,
             8388607},
      o \in {21, 255} }

\* bytes a read of a register returns
ReadBytes == {0, 103, 255}

\* what the three transfers of a byte write return
WriteErrs == [1 .. smbus_write_attempts -> XferResults]

BusReturn(name, reg, val, r) ==
  /\ op' = name
  /\ ret' = r.ret
  /\ bus' = [BusInit EXCEPT !.reg = reg, !.val = val, !.xfers = r.xfers]

BusUnchanged ==
  UNCHANGED << chip, mode, timings, restart_stdi_once, edid, edid_blocks,
               aspect_ratio, hotplug, work, pc, e, out, edid_out, q, h,
               removed, thr >>

\* adv7604_g_register, called by an administrator for this chip
GRegister ==
  /\ pc = "idle"
  /\ \E reg \in RegisterArgs, bpl \in BitsPerLong, err \in XferResults,
        byte \in ReadBytes :
       \E hit \in page_test_outcomes(info, reg \div 256, bpl) :
         LET r == adv7604_read_reg(reg, hit, err, byte)
         IN BusReturn("g_register", reg, 0,
                      [r EXCEPT !.ret = IF r.ret < 0 THEN r.ret ELSE 0])
  /\ UNCHANGED << regs, detect_tx_5v_ctrl >>
  /\ BusUnchanged

\* adv7604_s_register, called by an administrator for this chip
SRegister ==
  /\ pc = "idle"
  /\ \E reg \in RegisterArgs, bpl \in BitsPerLong, errs \in WriteErrs,
        val \in {160} :
       \E hit \in page_test_outcomes(info, reg \div 256, bpl) :
         LET r == adv7604_write_reg_xfer(reg, val, hit, errs)
         IN /\ BusReturn("s_register", reg, val,
                         [r EXCEPT !.ret = IF r.ret < 0 THEN r.ret ELSE 0])
            /\ regs' = IF r.ret = 0 /\ r.xfers # << >> /\ reg \in DOMAIN regs
                       THEN write_reg(regs, reg, val) ELSE regs
  /\ UNCHANGED detect_tx_5v_ctrl
  /\ BusUnchanged

\* one block transfer of the loop of edid_write_block, on its own
SmbusWriteBlock ==
  /\ pc = "idle"
  /\ \E i \in {0, I2C_SMBUS_BLOCK_MAX}, err \in XferResults :
       BusReturn("write_block", ADV7604_REG(ADV7604_PAGE_EDID, i), 0,
                 adv_smbus_write_i2c_block_data("i2c_edid", i,
                                                I2C_SMBUS_BLOCK_MAX, err))
  /\ UNCHANGED << regs, detect_tx_5v_ctrl >>
  /\ BusUnchanged

\* bits of *status
V4L2_IN_ST_NO_POWER  == 1
V4L2_IN_ST_NO_SIGNAL == 2
V4L2_IN_ST_NO_H_LOCK == 256
V4L2_IN_ST_NO_SYNC   == 65536

\* IO 0x0c, CP 0xb1, CP 0xb5, IO 0x6a and IO 0x12 as the chip can present
\* them: power bits, STDI lock, SSPD lock bits, TMDS lock and signal bits,
\* CP line count bit
MonitorStatus ==
  [ io0c : {66, 70, 98}, cpb1 : {0, 128}, cpb5 : {1, 144, 249},
    io6a : {0, 16, 227, 243}, io12 : {0, 1} ]

no_lock_cp(ci, s) ==
  IF ~adv7604_has_afe(ci) THEN FALSE
  ELSE BitAnd(s.io12, 1) # 0

\* the register reads of no_power, no_signal and no_lock_cp, in the order
\* adv7604_g_input_status makes them
input_status_reads(ci, m, s) ==
  LET rd(client, command, byte) == << Xfer(client, "read", command, byte, 0) >>
      power == rd("client", 12, s.io0c)
  IN power \o power \o rd("i2c_cp", 177, s.cpb1)
     \o (IF adv7604_has_afe(ci) THEN << >> ELSE rd("i2c_cp", 181, s.cpb5))
     \o (IF DIGITAL_INPUT(m)
         THEN rd("client", 106, s.io6a) \o rd("client", 106, s.io6a)
         ELSE << >>)
     \o (IF adv7604_has_afe(ci) THEN rd("client", 18, s.io12) ELSE << >>)

\* adv7604_g_input_status(): *status and the return value
adv7604_g_input_status(ci, m, s) ==
  [ ret |-> 0,
    status |-> (IF no_power(s) THEN V4L2_IN_ST_NO_POWER ELSE 0)
               + (IF no_signal(ci, m, s) THEN V4L2_IN_ST_NO_SIGNAL ELSE 0)
               + (IF no_lock_cp(ci, s)
                  THEN (IF DIGITAL_INPUT(m) THEN V4L2_IN_ST_NO_SYNC
                        ELSE V4L2_IN_ST_NO_H_LOCK)
                  ELSE 0),
    xfers |-> input_status_reads(ci, m, s) ]

\* its results for every chip, input mode and status
InputStatusTable ==
  { << c, m, s, adv7604_g_input_status(adv7604_chip_info[c], m, s) >> :
      c \in ChipTypes, m \in ModeValues, s \in MonitorStatus }

GInputStatus ==
  /\ pc = "idle"
  /\ \E x \in { y \in InputStatusTable : y[1] = chip /\ y[2] = mode } :
       /\ op' = "g_input_status"
       /\ ret' = x[4].ret
       /\ bus' = [BusInit EXCEPT !.val = x[4].status, !.xfers = x[4].xfers,
                                 !.st = x[3]]
  /\ UNCHANGED << regs, detect_tx_5v_ctrl >>
  /\ BusUnchanged

(* ----------------------------------------------------------------------- *)
(* ModeConfigurator: adv7604_s_dv_timings                                   *)
(* ----------------------------------------------------------------------- *)

\* struct adv7604_video_standards: the index of the timings in
\* adv7604_timings, vid_std, v_freq
adv7604_prim_mode_comp ==
  << << 2, 11, 0 >>, << 5, 25, 1 >>, << 6, 25, 0 >>, << 7, 30, 4 >>,
     << 8, 30, 3 >>, << 9, 30, 2 >>, << 10, 30, 1 >>, << 11, 30, 0 >> >>

adv7604_prim_mode_gr ==
  << << 15, 8, 0 >>, << 16, 9, 0 >>, << 17, 10, 0 >>, << 18, 11, 0 >>,
     << 19, 0, 0 >>, << 20, 1, 0 >>, << 21, 2, 0 >>, << 22, 3, 0 >>,
     << 23, 4, 0 >>, << 25, 12, 0 >>, << 26, 13, 0 >>, << 27, 14, 0 >>,
     << 28, 15, 0 >>, << 40, 5, 0 >>, << 41, 6, 0 >>, << 43, 18, 0 >>,
     << 56, 19, 0 >>, << 45, 20, 0 >>, << 46, 21, 0 >>, << 50, 22, 0 >>,
     << 52, 24, 0 >>, << 55, 25, 0 >> >>

adv7604_prim_mode_hdmi_comp ==
  << << 1, 10, 0 >>, << 2, 11, 0 >>, << 5, 19, 1 >>, << 6, 19, 0 >>,
     << 7, 30, 4 >>, << 8, 30, 3 >>, << 9, 30, 2 >>, << 10, 30, 1 >>,
     << 11, 30, 0 >> >>

adv7604_prim_mode_hdmi_gr ==
  << << 15, 8, 0 >>, << 16, 9, 0 >>, << 17, 10, 0 >>, << 18, 11, 0 >>,
     << 19, 0, 0 >>, << 20, 1, 0 >>, << 21, 2, 0 >>, << 22, 3, 0 >>,
     << 23, 4, 0 >>, << 25, 12, 0 >>, << 26, 13, 0 >>, << 27, 14, 0 >>,
     << 28, 15, 0 >>, << 40, 5, 0 >>, << 41, 6, 0 >> >>

\* variant: no entry of a table is taken
find_and_set_predefined_never(m, prim_mode, tbl, t, i) == << >>

\* find_and_set_predefined_video_timings(): the two writes of the first
\* entry that matches, none when the table has no match (return -1)
RECURSIVE find_and_set_predefined_video_timings(_, _, _, _, _)
find_and_set_predefined_video_timings(m, prim_mode, tbl, t, i) ==
  IF i > Len(tbl) THEN << >>
  ELSE IF v4l_match_dv_timings(t, adv7604_timings[tbl[i][1]],
                               IF DIGITAL_INPUT(m) THEN DigitalPclockDelta
                               ELSE AnalogPclockDelta)
  THEN << << IoReg(0), tbl[i][2] >>,
          << IoReg(1), (tbl[i][3] * 16 + prim_mode) % 256 >> >>
  ELSE find_and_set_predefined_video_timings(m, prim_mode, tbl, t, i + 1)

\* the tables the switch of configure_predefined_video_timings searches,
\* with their prim_mode, in the order it searches them
predefined_tables(m) ==
  IF m \in {ADV7604_MODE_COMP, ADV7604_MODE_GR}
  THEN << << 1, adv7604_prim_mode_comp >>, << 2, adv7604_prim_mode_gr >> >>
  ELSE IF m = ADV7604_MODE_HDMI
  THEN << << 5, adv7604_prim_mode_hdmi_comp >>,
          << 6, adv7604_prim_mode_hdmi_gr >> >>
  ELSE << >>

\* configure_predefined_video_timings(): its writes, and err
configure_predefined_video_timings(ci, m, t, r) ==
  LET reset == (IF adv7604_has_afe(ci)
                THEN << << IoReg(22), 67 >>, << IoReg(23), 90 >> >>
                ELSE << >>) \o
               << << CpReg(129), BitAnd(r[CpReg(129)], 239) >>,
                  << CpReg(143), 0 >>, << CpReg(144), 0 >>,
                  << CpReg(162), 0 >>, << CpReg(163), 0 >>,
                  << CpReg(164), 0 >>, << CpReg(165), 0 >>,
                  << CpReg(166), 0 >>, << CpReg(167), 0 >>,
                  << CpReg(171), 0 >>, << CpReg(172), 0 >> >>
      tb == predefined_tables(m)
      w1 == IF tb = << >> THEN << >>
            ELSE find_and_set_predefined_video_timings(m, tb[1][1], tb[1][2], t, 1)
      w2 == IF tb = << >> \/ w1 # << >> THEN << >>
            ELSE find_and_set_predefined_video_timings(m, tb[2][1], tb[2][2], t, 1)
  IN [ writes |-> reset \o w1 \o w2, err |-> w1 = << >> /\ w2 = << >> ]

\* configure_custom_video_timings(); r is the register file it finds,
\* pll_err what the block write of the two PLL bytes returns
configure_custom_video_timings(m, bt, r, pll_err) ==
  LET width == htotal(bt)
      height == vtotal(bt)
      cp_start_sav == U16(bt.hsync + bt.hbackporch + 65536 - 4)
      cp_start_eav == U16(width + 65536 - bt.hfrontporch)
      cp_start_vbi == U16(height + 65536 - bt.vfrontporch)
      cp_end_vbi == U16(bt.vsync + bt.vbackporch)
      ch1_fr_ll == IF bt.pixelclock \div 100 > 0
                   THEN U16((width * (ADV7604_fsc \div 100))
                            \div (bt.pixelclock \div 100))
                   ELSE 0
      pll == << << IoReg(22), 192 + BitAnd(width \div 256, 31) >>,
                << IoReg(23), width % 256 >> >>
      head == << << IoReg(0), 7 >>, << IoReg(1), 2 >>,
                 << CpReg(129), BitOr(BitAnd(r[CpReg(129)], 239), 16) >> >>
      edges == << << CpReg(162), (cp_start_sav \div 16) % 256 >>,
                  << CpReg(163), (cp_start_sav % 16) * 16
                                 + ((cp_start_eav \div 256) % 16) >>,
                  << CpReg(164), cp_start_eav % 256 >>,
                  << CpReg(165), (cp_start_vbi \div 16) % 256 >>,
                  << CpReg(166), (cp_start_vbi % 16) * 16
                                 + ((cp_end_vbi \div 256) % 16) >>,
                  << CpReg(167), cp_end_vbi % 256 >> >>
      tail == << << CpReg(143), (ch1_fr_ll \div 256) % 8 >>,
                 << CpReg(144), ch1_fr_ll % 256 >>,
                 << CpReg(171), (height \div 16) % 256 >>,
                 << CpReg(172), (height % 16) * 16 >> >>
  IN IF m \in {ADV7604_MODE_COMP, ADV7604_MODE_GR}
     THEN (IF pll_err # 0 THEN head ELSE head \o pll \o edges) \o tail
     ELSE IF m = ADV7604_MODE_HDMI
     THEN << << IoReg(0), 2 >>, << IoReg(1), 6 >> >> \o tail
     ELSE tail

\* set_rgb_quantization_range() with rgb_quantization_range at the
\* automatic setting; hdmi05 is HDMI register 0x05 as read
set_rgb_quantization_range(m, t, r, hdmi05) ==
  LET low == BitAnd(r[IoReg(2)], 15) IN
  IF DIGITAL_INPUT(m) /\ BitAnd(hdmi05, 128) = 0
  THEN IF BitAnd(t.standards, V4L2_DV_BT_STD_CEA861) # 0
       THEN << << IoReg(2), low >> >>
       ELSE << << IoReg(2), low + 16 >> >>
  ELSE << << IoReg(2), low + 240 >> >>

RECURSIVE write_regs(_, _, _)
write_regs(r, ws, i) ==
  IF i > Len(ws) THEN r
  ELSE write_regs(write_reg(r, ws[i][1], ws[i][2]), ws, i + 1)

\* adv7604_s_dv_timings() past the range check: the optional fields are
\* filled in, state->timings is assigned and the registers are set up
s_dv_timings_configure(ci, m, arg, r, pll_err, hdmi05) ==
       LET t == adv7604_fill_optional_dv_timings_fields(m, arg)
           w91 == << << CpReg(145),
                        BitOr(BitAnd(r[CpReg(145)], 64),
                              IF t.interlaced # 0 THEN 64 ELSE 0) >> >>
           r1 == write_regs(r, w91, 1)
           pre == configure_predefined_video_timings(ci, m, t, r1)
           r2 == write_regs(r1, pre.writes, 1)
           cus == IF pre.err
                  THEN configure_custom_video_timings(m, t, r2, pll_err)
                  ELSE << >>
           r3 == write_regs(r2, cus, 1)
           rgb == set_rgb_quantization_range(m, t, r3, hdmi05)
       IN [ ret |-> 0, stored |-> TRUE, timings |-> t,
            writes |-> w91 \o pre.writes \o cus \o rgb,
            predefined |-> ~pre.err, custom |-> pre.err ]

\* variant: state->timings is assigned before the range check
adv7604_s_dv_timings_store_first(ci, m, arg, old, r, pll_err, hdmi05) ==
  IF pixelclock_out_of_range(m, arg.pixelclock)
  THEN [ ret |-> -ERANGE, stored |-> TRUE, timings |-> arg,
         writes |-> << >>, predefined |-> FALSE, custom |-> FALSE ]
  ELSE s_dv_timings_configure(ci, m, arg, r, pll_err, hdmi05)

\* adv7604_s_dv_timings(): the return value, whether state->timings is
\* assigned and to what, the writes
adv7604_s_dv_timings(ci, m, arg, old, r, pll_err, hdmi05) ==
  IF pixelclock_out_of_range(m, arg.pixelclock)
  THEN [ ret |-> -ERANGE, stored |-> FALSE, timings |-> old,
         writes |-> << >>, predefined |-> FALSE, custom |-> FALSE ]
  ELSE s_dv_timings_configure(ci, m, arg, r, pll_err, hdmi05)

\* timings s_dv_timings is called with: table entries of the component and
\* graphics tables, entries only the HDMI or only the analog tables hold,
\* 1792x1344p60 above the analog limit, a format of no table
SDvTimingsArgs ==
  { adv7604_timings[i] : i \in {1, 2, 15, 50, 53} } \cup
  { [adv7604_timings[2] EXCEPT !.pixelclock = 27500000],
    BT(1000, 700, 0, 60000000, 40, 60, 100, 3, 5, 20, 0, 0),
    BT(1000, 700, 0, 250000000, 40, 60, 100, 3, 5, 20, 0, 0) }

\* the registers s_dv_timings reads before it writes them, CP 0x81, CP 0x91
\* and IO 0x02, with the values they take
SDvRegFile(k) ==
  [ x \in RegSet |-> IF x = CpReg(129) THEN k[1]
                     ELSE IF x = CpReg(145) THEN k[2]
                     ELSE IF x = IoReg(2) THEN k[3] ELSE 0 ]

SDvRegKeys == {0, 16} \X {0, 64} \X {0, 16, 240}

\* the results of adv7604_s_dv_timings for every chip, mode, argument,
\* outcome of the block write, HDMI 0x05 and content of these registers
SDvTimingsTable ==
  { << c, m, k, a, er,
       adv7604_s_dv_timings(adv7604_chip_info[c], m, a, ZeroTimings,
                            SDvRegFile(k), er, h05) >> :
      c \in ChipTypes, m \in ModeValues, k \in SDvRegKeys,
      a \in SDvTimingsArgs, er \in XferResults, h05 \in {0, 128} }

\* adv7604_s_dv_timings called with one of args
SDvTimingsCall(args) ==
  /\ pc = "idle"
  /\ \E x \in { y \in SDvTimingsTable :
                   /\ y[1] = chip /\ y[2] = mode /\ y[4] \in args
                   /\ y[3] = << regs[CpReg(129)], regs[CpReg(145)],
                                regs[IoReg(2)] >> } :
       LET a == x[4]
           er == x[5]
           r == x[6]
       IN /\ op' = "s_dv_timings"
          /\ ret' = r.ret
          /\ timings' = IF r.stored THEN r.timings ELSE timings
          /\ regs' = write_regs(regs, r.writes, 1)
          /\ bus' = [BusInit EXCEPT
                       !.writes = r.writes,
                       !.xfers = IF r.custom /\ ~DIGITAL_INPUT(mode)
                                    /\ mode \in {ADV7604_MODE_COMP,
                                                 ADV7604_MODE_GR}
                                 THEN adv_smbus_write_i2c_block_data(
                                        "client", 22, 2, er).xfers
                                 ELSE << >>]
          /\ out' = IF r.ret = 0 THEN r.timings ELSE a
          /\ h' = IF r.ret = 0
                  THEN [h EXCEPT !.routed = 0, !.set_arg = a, !.set_mode = mode]
                  ELSE [h EXCEPT !.routed = 0]
  /\ UNCHANGED << chip, mode, restart_stdi_once, edid, edid_blocks,
                  aspect_ratio, hotplug, work, pc, e, edid_out, q,
                  detect_tx_5v_ctrl, removed, thr >>

SDvTimings == SDvTimingsCall(SDvTimingsArgs)

\* set calls between other calls: 720x576p50 with a pixel clock 500 kHz
\* off and a format with a pixel clock out of range
SDvTimingsFew ==
  SDvTimingsCall({ a \in SDvTimingsArgs :
                     a.pixelclock \in {27500000, 250000000} })

\* adv7604_g_dv_timings(): *timings = state->timings
GDvTimings ==
  /\ pc = "idle"
  /\ op' = "g_dv_timings"
  /\ ret' = 0
  /\ out' = timings
  /\ UNCHANGED << chip, mode, timings, restart_stdi_once, edid, edid_blocks,
                  aspect_ratio, regs, hotplug, work, pc, e, edid_out, q, h >>
  /\ UNCHANGED auxVars

\* variant: every input is taken
s_routing_takes_any(ci, input) == FALSE

\* if (!adv7604_has_afe(state) && input != ADV7604_MODE_HDMI)
\*         return -EINVAL;
s_routing_rejects(ci, input) ==
  ~adv7604_has_afe(ci) /\ input # ADV7604_MODE_HDMI

\* adv7604_s_routing called with one of inputs; bus.val keeps the input
SRoutingCall(inputs) ==
  /\ pc = "idle"
  /\ \E input \in inputs :
       /\ op' = "s_routing"
       /\ IF s_routing_rejects(info, input)
          THEN /\ ret' = -EINVAL
               /\ h' = [h EXCEPT !.routed = 0]
               /\ bus' = [BusInit EXCEPT !.val = input]
               /\ UNCHANGED << mode, regs >>
          ELSE /\ ret' = 0
               /\ mode' = input
               /\ bus' = [BusInit EXCEPT !.val = input,
                                          !.writes = s_routing_writes(input)]
               /\ h' = [h EXCEPT !.routed = IF h.routed > 0 /\ input = mode
                                            THEN 2 ELSE 1]
               /\ regs' = enable_input(select_input(disable_input(regs), input),
                                       input)
       /\ UNCHANGED << chip, timings, restart_stdi_once, edid, edid_blocks,
                       aspect_ratio, hotplug, work, pc, e, out, edid_out,
                       q >>
  /\ UNCHANGED << detect_tx_5v_ctrl, removed, thr >>

SRouting == SRoutingCall(RoutingInputs)

\* routing calls between other calls: the HDMI input
SRoutingHdmi == SRoutingCall({ADV7604_MODE_HDMI})

(* ----------------------------------------------------------------------- *)
(* InterruptDispatcher: adv7604_isr                                         *)
(* ----------------------------------------------------------------------- *)

\* an int stored to a u8
U8(x) == x % 256

\* outcomes of one io_read() of a status register: the transfer fails, or
\* it delivers a byte
IsrRead(b) == [err |-> 0, byte |-> b]

IsrReadFails == [err |-> -EIO, byte |-> 0]

\* the reads of IO 0x43, 0x6b, 0x70 and 0x6f of one invocation
IsrReads ==
  { << r43, r6b, r70, r6f >> :
      r43 \in {IsrReadFails, IsrRead(0), IsrRead(16), IsrRead(255)},
      r6b \in {IsrReadFails, IsrRead(0), IsrRead(255)},
      r70 \in {IsrReadFails, IsrRead(0), IsrRead(255)},
      r6f \in {IsrRead(0), IsrRead(255)} }

\* what the transfers of the io_write() calls of one invocation return: all
\* pass or all fail
IsrWriteErrs ==
  { [w \in 1 .. 3 |-> [i \in 1 .. smbus_write_attempts |-> er]] :
      er \in XferResults }

\* the handled argument: a null pointer or a pointer to false
HandledArgs == {"null", "false"}

io_read(x, command) == adv_smbus_read_byte_data("client", command, x.err, x.byte)

io_write(command, value, errs) ==
  adv_smbus_write_byte_data("client", command, value, errs)

\* if (handled) *handled = true;
set_handled(hd) == IF hd = "null" THEN hd ELSE "true"

\* adv7604_isr: the transfers, the notifications, *handled and the value
\* given to the power-present control when the handler sets it
adv7604_isr(m, ci, rd, wr, hd) ==
  LET r43 == io_read(rd[1], 67)
      fmt_change == BitAnd(U8(r43.ret), 152)
      w44 == IF fmt_change # 0 THEN io_write(68, fmt_change, wr[1]).xfers
             ELSE << >>
      r6b == IF DIGITAL_INPUT(m) THEN io_read(rd[2], 107).xfers ELSE << >>
      fmt_change_digital ==
        IF DIGITAL_INPUT(m)
        THEN BitAnd(U8(io_read(rd[2], 107).ret), ci.fmt_change_digital_mask)
        ELSE 0
      w6c == IF fmt_change_digital # 0
             THEN io_write(108, fmt_change_digital, wr[2]).xfers ELSE << >>
      changed == fmt_change # 0 \/ fmt_change_digital # 0
      hd1 == IF changed THEN set_handled(hd) ELSE hd
      r70 == io_read(rd[3], 112)
      tx_5v == BitAnd(U8(r70.ret), ci.cable_det_mask)
      w71 == IF tx_5v # 0 THEN io_write(113, tx_5v, wr[3]).xfers ELSE << >>
      r6f == io_read(rd[4], 111)
  IN [ xfers |-> r43.xfers \o w44 \o r6b \o w6c \o r70.xfers \o w71 \o
                 (IF tx_5v # 0 THEN r6f.xfers ELSE << >>),
       notify |-> IF changed THEN << "ADV7604_FMT_CHANGE" >> ELSE << >>,
       handled_in |-> hd,
       handled |-> IF tx_5v # 0 THEN set_handled(hd1) ELSE hd1,
       ctrl_set |-> tx_5v # 0,
       ctrl |-> IF BitAnd(U8(r6f.ret), ci.cable_det_mask) # 0 THEN 1 ELSE 0,
       ret |-> 0 ]

\* what one invocation can do, by chip and mode
IsrTable ==
  { << c, m, adv7604_isr(m, adv7604_chip_info[c], rd, wr, hd) >> :
      c \in ChipTypes, m \in ModeValues, rd \in IsrReads, wr \in IsrWriteErrs,
      hd \in HandledArgs }

IsrQuietOrAllTable ==
  { << c, m, adv7604_isr(m, adv7604_chip_info[c],
                         << IsrRead(b), IsrRead(b), IsrRead(b), IsrRead(b) >>,
                         [w \in 1 .. 3 |-> [i \in 1 .. smbus_write_attempts |-> 0]],
                         "false") >> :
      c \in ChipTypes, m \in ModeValues, b \in {0, 255} }

IsrOutcomes == { x[3] : x \in { y \in IsrTable : y[1] = chip /\ y[2] = mode } }

\* adv7604_isr runs with one of the outcomes outs
IsrCall(outs) ==
  /\ pc = "idle"
  /\ \E r \in outs :
       /\ op' = "isr"
       /\ ret' = r.ret
       /\ bus' = [BusInit EXCEPT !.xfers = r.xfers, !.notify = r.notify,
                                 !.handled_in = r.handled_in,
                                 !.handled = r.handled]
       /\ detect_tx_5v_ctrl' = IF r.ctrl_set THEN r.ctrl
                               ELSE detect_tx_5v_ctrl
  /\ UNCHANGED regs
  /\ BusUnchanged

Isr == IsrCall(IsrOutcomes)

\* invocations between configuration calls: no status bit raised, or all
\* raised, with every transfer passing
IsrQuietOrAll ==
  IsrCall({ x[3] : x \in { y \in IsrQuietOrAllTable :
                              y[1] = chip /\ y[2] = mode } })

(* ----------------------------------------------------------------------- *)
(* EdidHotplugController                                                    *)
(* ----------------------------------------------------------------------- *)

\* struct v4l2_subdev_edid as set_edid is called with it: every block count
\* and buffer with pad and start_block zero, and each of the two nonzero
\* with a few block counts
EdidArgs ==
  [ pad : {0}, start_block : {0}, blocks : 0 .. MaxEdidBlocksArg,
    data : EdidBlobs \cup {NullEdid} ] \cup
  [ pad : {0, 1}, start_block : {0, 1}, blocks : {0, 1, MaxEdidBlocksArg},
    data : {CHOOSE b \in EdidBlobs : b.tag = 1} ]

Ev(name, arg) == [ev |-> name, arg |-> arg]

NoEdidOut == [start_block |-> 0, asked |-> 0, blocks |-> 0, data |-> << >>]

EdidCallInit ==
  [ args |-> [pad |-> 0, start_block |-> 0, blocks |-> 0, data |-> NullEdid],
    path |-> "none", len |-> 0, i |-> 0, log |-> << >>, k |-> 0,
    last |-> "none", age |-> 0, prev_blocks |-> 0, queued |-> FALSE,
    prev_edid |-> [b \in 0 .. 1 |-> 0],
    prev_aspect |-> [numerator |-> 0, denominator |-> 0] ]

\* queue_delayed_work(): a work that is already pending is left alone
queue_delayed_work(w) ==
  IF w.pending THEN w
  ELSE [pending |-> TRUE, timer |-> HotplugDelayTicks]

\* the argument checks of adv7604_set_edid, in the order of the code: the
\* branch the call takes and the errno of a rejected call
\* variant: no block count selects the clear branch
set_edid_never_clear(blocks) == FALSE

set_edid_is_clear(blocks) == blocks = 0

\* variant: a block count above 2 is reported as an invalid argument
set_edid_check_no_e2big(a) ==
  IF a.pad # 0 THEN [path |-> "rejected", err |-> -EINVAL]
  ELSE IF a.start_block # 0 THEN [path |-> "rejected", err |-> -EINVAL]
  ELSE IF set_edid_is_clear(a.blocks) THEN [path |-> "clear", err |-> 0]
  ELSE IF a.blocks > 2 THEN [path |-> "rejected", err |-> -EINVAL]
  ELSE IF a.data = NullEdid THEN [path |-> "rejected", err |-> -EINVAL]
  ELSE [path |-> "program", err |-> 0]

set_edid_check(a) ==
  IF a.pad # 0 THEN [path |-> "rejected", err |-> -EINVAL]
  ELSE IF a.start_block # 0 THEN [path |-> "rejected", err |-> -EINVAL]
  ELSE IF set_edid_is_clear(a.blocks) THEN [path |-> "clear", err |-> 0]
  ELSE IF a.blocks > 2 THEN [path |-> "rejected", err |-> -E2BIG]
  ELSE IF a.data = NullEdid THEN [path |-> "rejected", err |-> -EINVAL]
  ELSE [path |-> "program", err |-> 0]

\* variant: internal access is not disabled
EdidAccessLeftOn(r) == r

\* rep_write_and_or(sd, info->edid_ctrl_reg, 0xf0, 0x0)
EdidAccessOff(r) == write_and_or(r, Reg_EdidCtrl, 240, 0)

\* rep_write_and_or(sd, info->edid_ctrl_reg, 0xf0, 0x1)
EdidAccessOn(r) == write_and_or(r, Reg_EdidCtrl, 240, 1)

EdidCtrlNibble(r) == BitAnd(r[Reg_EdidCtrl], 15)

\* the poll loop: k is the index of the first status read that has bit 0
\* set; the result is the value of i after the loop
edid_poll_iterations(k) == IF k < EdidPollMax THEN k ELSE EdidPollMax

\* variant: the loop counter is never taken as a timeout
edid_poll_never_timed_out(i) == i > EdidPollMax

edid_poll_timed_out(i) == i = EdidPollMax

\* indices of the first status read with the valid bit that are tried
PollOutcomes == {0, EdidPollMax - 1, EdidPollMax}

\* results of one block write on the bus
BlockWriteResults == {0, -EIO}

\* adv7604_set_edid up to the block write loop, called with one of args
SetEdidCall(args) ==
  /\ pc = "idle"
  /\ \E a \in args :
       LET c == set_edid_check(a)
           e0 == [e EXCEPT !.args = a, !.len = 0, !.i = 0, !.log = << >>,
                           !.k = 0, !.prev_blocks = edid_blocks,
                           !.prev_edid = edid, !.prev_aspect = aspect_ratio]
       IN
       /\ op' = "set_edid"
       /\ IF c.path = "clear"
          THEN /\ hotplug' = 0
               /\ regs' = EdidAccessOff(regs)
               /\ edid_blocks' = 0
               /\ aspect_ratio' = clear_aspect_ratio(aspect_ratio)
               /\ ret' = 0
               /\ e' = [e0 EXCEPT !.path = "clear", !.last = "clear",
                                  !.log = << Ev("hotplug", 0),
                                             Ev("ctrl", EdidCtrlNibble(regs')) >>]
               /\ UNCHANGED << edid, pc >>
          ELSE IF c.path = "program"
          THEN /\ edid' = [b \in 0 .. 1 |->
                             IF b < a.blocks THEN a.data.tag ELSE edid[b]]
               /\ edid_blocks' = a.blocks
               /\ aspect_ratio' = v4l2_calc_aspect_ratio(a.data.b15, a.data.b16)
               /\ hotplug' = 0
               /\ regs' = EdidAccessOff(regs)
               /\ pc' = "write"
               /\ e' = [e0 EXCEPT !.path = "program", !.last = "set_running",
                                  !.len = 128 * a.blocks,
                                  !.log = << Ev("hotplug", 0),
                                             Ev("ctrl", EdidCtrlNibble(regs')) >>]
               /\ UNCHANGED ret
          ELSE /\ ret' = c.err
               /\ e' = [e0 EXCEPT !.path = "rejected"]
               /\ UNCHANGED << edid, edid_blocks, aspect_ratio, hotplug, regs,
                               pc >>
  /\ edid_out' = NoEdidOut
  /\ UNCHANGED << chip, mode, timings, restart_stdi_once, work, out, q, h >>
  /\ UNCHANGED auxVars

SetEdid == SetEdidCall(EdidArgs)

EdidUnchanged ==
  /\ edid_out' = NoEdidOut
  /\ UNCHANGED << chip, mode, timings, restart_stdi_once, edid, edid_blocks,
                  aspect_ratio, out, q, h >>
  /\ UNCHANGED auxVars

\* one pass of the block write loop of edid_write_block
EdidWriteChunk ==
  /\ pc = "write"
  /\ e.i < e.len
  /\ \E res \in BlockWriteResults :
       LET err == adv_smbus_write_i2c_block_data("i2c_edid", e.i,
                                                 I2C_SMBUS_BLOCK_MAX, res).ret
       IN
       IF err = 0
       THEN /\ e' = [e EXCEPT !.i = e.i + I2C_SMBUS_BLOCK_MAX,
                              !.log = Append(e.log, Ev("chunk", e.i))]
            /\ UNCHANGED << pc, op, ret >>
       ELSE /\ e' = [e EXCEPT !.i = e.i + I2C_SMBUS_BLOCK_MAX,
                              !.last = "set_failed"]
            /\ pc' = "idle"
            /\ op' = "set_edid"
            /\ ret' = err
  /\ UNCHANGED << regs, hotplug, work >>
  /\ EdidUnchanged

\* after the loop: internal access is enabled again
EdidEnable ==
  /\ pc = "write"
  /\ e.i >= e.len
  /\ regs' = EdidAccessOn(regs)
  /\ e' = [e EXCEPT !.log = Append(e.log, Ev("ctrl", EdidCtrlNibble(regs')))]
  /\ pc' = "poll"
  /\ UNCHANGED << hotplug, work, op, ret >>
  /\ EdidUnchanged

\* the end of edid_write_block: i is the loop counter after the poll loop
EdidPollReturn(i, e1) ==
  /\ IF edid_poll_timed_out(i)
     THEN /\ ret' = -EIO
          /\ e' = [e1 EXCEPT !.last = "set_failed"]
          /\ UNCHANGED work
     ELSE /\ ret' = 0
          /\ work' = queue_delayed_work(work)
          /\ e' = [e1 EXCEPT !.last = "set_ok", !.age = 0,
                             !.queued = ~work.pending,
                             !.log = Append(e1.log, Ev("sched", 0))]
  /\ pc' = "idle"
  /\ op' = "set_edid"
  /\ UNCHANGED << regs, hotplug >>
  /\ EdidUnchanged

\* the poll of the status register and the end of edid_write_block
EdidPoll ==
  /\ pc = "poll"
  /\ \E k \in PollOutcomes :
       EdidPollReturn(edid_poll_iterations(k),
                      [e EXCEPT !.k = k, !.log = Append(e.log, Ev("poll", 0))])

\* variant: the loop counter starts over before it reaches its bound
edid_poll_next_wrapped(i) == (i + 1) % EdidPollMax

\* i++ of the poll loop
edid_poll_next(i) == i + 1

\* the poll loop pass by pass. One pass that stays in the loop: the status
\* read has no valid bit, mdelay(1), i++
EdidPollStep ==
  /\ pc = "poll"
  /\ e.k < EdidPollMax
  /\ e' = [e EXCEPT !.k = edid_poll_next(e.k)]
  /\ UNCHANGED << regs, hotplug, work, pc, op, ret >>
  /\ EdidUnchanged

\* the loop is left, by the break after a status read with the valid bit or
\* with i at its bound, and edid_write_block returns
EdidPollExit ==
  /\ pc = "poll"
  /\ e.k <= EdidPollMax
  /\ EdidPollReturn(e.k, [e EXCEPT !.log = Append(e.log, Ev("poll", 0))])

\* what one read of the status register delivers: the transfer fails, or
\* it gives a byte without or with the valid bit
StatusReadOutcomes ==
  { [err |-> er, byte |-> b] : er \in XferResults, b \in {0, 1, 254, 255} }

\* rep_read(sd, info->edid_status_reg)
read_edid_status(ci, rd) ==
  adv_smbus_read_byte_data("i2c_repeater", ci.edid_status_reg, rd.err, rd.byte)

\* variant: the low bit of a byte that was read
status_valid_if_read(r) == r >= 0 /\ r % 2 = 1

\* rep_read(...) & 1 as a condition: the low bit of the int returned, a
\* negative error value included
status_valid(r) == r % 2 = 1

\* the poll loop pass by pass with the status read of each pass: the read,
\* then the break and the end of edid_write_block, or mdelay(1) and i++;
\* bus.val keeps what the read returned
EdidPollPass ==
  /\ pc = "poll"
  /\ e.k < EdidPollMax
  /\ \E rd \in StatusReadOutcomes :
       LET r == read_edid_status(info, rd) IN
       /\ bus' = [BusInit EXCEPT !.val = r.ret, !.xfers = r.xfers]
       /\ IF status_valid(r.ret)
          THEN /\ ret' = 0
               /\ work' = queue_delayed_work(work)
               /\ e' = [e EXCEPT !.last = "set_ok", !.age = 0,
                                 !.queued = ~work.pending,
                                 !.log = e.log \o << Ev("poll", 0),
                                                     Ev("sched", 0) >>]
               /\ pc' = "idle"
               /\ op' = "set_edid"
          ELSE /\ e' = [e EXCEPT !.k = edid_poll_next(e.k)]
               /\ UNCHANGED << work, pc, op, ret >>
  /\ edid_out' = NoEdidOut
  /\ UNCHANGED << chip, mode, timings, restart_stdi_once, edid, edid_blocks,
                  aspect_ratio, out, q, h, regs, hotplug,
                  detect_tx_5v_ctrl, removed, thr >>

\* the loop has run 1000 passes: edid_write_block returns -EIO
EdidPollTimeout ==
  /\ pc = "poll"
  /\ e.k = EdidPollMax
  /\ EdidPollReturn(e.k, [e EXCEPT !.log = Append(e.log, Ev("poll", 0))])

\* EDID buffers with different bytes 0x15 and 0x16
HintEdidBlobs == EdidBlobs \cup { [tag |-> 2, b15 |-> 34, b16 |-> 0] }

\* set_edid calls between detections: a clear and one block to program
HintEdidArgs ==
  [ pad : {0}, start_block : {0}, blocks : {0, 1}, data : HintEdidBlobs ]

SetEdidHint == SetEdidCall(HintEdidArgs)

\* a readout no table entry and no CVT timing fits: 1001 lines, vsync 3
\* lines wide and positive, hsync negative
GtfReads ==
  { [ unusable |-> FALSE, entry |-> 0,
      rd |-> read_stdi(info, StatusGood,
                       StdiRegs(4000, 1000, 3, FALSE, 113, 16), StatusGood) ] }

GtfOutcomes(stdi, aspect) ==
  stdi_resolve(stdi, aspect, analog_entry_timings(stdi))

\* adv7604_query_dv_timings in an analog mode with that readout
QueryGtfSample ==
  /\ ~DIGITAL_INPUT(mode)
  /\ QueryCall(GtfReads, GtfOutcomes)

\* set_edid calls of the pass by pass runs: a clear, a block to program and
\* a rejected call
PollEdidArgs ==
  [ pad : {0}, start_block : {0}, blocks : {0, 1, MaxEdidBlocksArg},
    data : {CHOOSE b \in EdidBlobs : b.tag = 1} ]

SetEdidPoll == SetEdidCall(PollEdidArgs)

\* set_edid calls between other calls: a clear and a rejected call
SetEdidClearOrReject == SetEdidCall({ a \in PollEdidArgs : a.blocks # 1 })

\* time passes while the work is waiting for its delay
Tick ==
  /\ work.pending
  /\ work.timer > 0
  /\ work' = [work EXCEPT !.timer = work.timer - 1]
  /\ e' = [e EXCEPT !.age = Min(e.age + 1, HotplugDelayTicks)]
  /\ op' = "tick"
  /\ UNCHANGED << regs, hotplug, pc, ret >>
  /\ EdidUnchanged

\* adv7604_delayed_work_enable_hotplug
EnableHotplugWork ==
  /\ work.pending
  /\ work.timer = 0
  /\ work' = [work EXCEPT !.pending = FALSE]
  /\ hotplug' = 1
  /\ op' = "enable_hotplug"
  /\ UNCHANGED << regs, pc, e, ret >>
  /\ EdidUnchanged

\* struct v4l2_subdev_edid as get_edid is called with it; null: edid->edid
\* is NULL
GetEdidArgs ==
  [ pad : {0}, start_block : 0 .. 2, blocks : 0 .. 2, null : {FALSE} ] \cup
  [ pad : {0, 1}, start_block : {0}, blocks : {1}, null : BOOLEAN ]

\* blocks of the u8 edid[256] array of the state
EdidArrayBlocks == 2

\* what stands for the memory behind state->edid in the data handed back
PastEdidArray == -1

\* if (edid->start_block + edid->blocks > state->edid_blocks)
\*         edid->blocks = state->edid_blocks - edid->start_block;
\* all three are u32
get_edid_blocks(start_block, blocks, stored) ==
  IF gt_u32(add_u32(start_block, blocks), stored) THEN stored - start_block
  ELSE blocks

\* memcpy(edid->edid + start_block * 128, state->edid + start_block * 128,
\* blocks * 128): the blocks of the array, and one element for what is read
\* behind the array when the copy runs past its end. Such a copy may also
\* fault; the call then does not return and the state stays as it is.
get_edid_copy(start_block, n) ==
  LET inside == IF gt_u32(n, EdidArrayBlocks - start_block)
                THEN EdidArrayBlocks - start_block ELSE n
  IN [j \in 1 .. inside |-> edid[start_block + j - 1]] \o
     (IF inside # n THEN << PastEdidArray >> ELSE << >>)

\* adv7604_get_edid: the blocks member and the blocks copied to the caller
get_edid(a) ==
  IF a.pad # 0 THEN [ret |-> -EINVAL, blocks |-> a.blocks, data |-> << >>]
  ELSE IF a.blocks = 0 THEN [ret |-> -EINVAL, blocks |-> a.blocks, data |-> << >>]
  ELSE IF ge_u32(a.start_block, edid_blocks)
  THEN [ret |-> -EINVAL, blocks |-> a.blocks, data |-> << >>]
  ELSE LET n == get_edid_blocks(a.start_block, a.blocks, edid_blocks)
       IN IF a.null THEN [ret |-> -EINVAL, blocks |-> n, data |-> << >>]
          ELSE [ret |-> 0, blocks |-> n,
                data |-> get_edid_copy(a.start_block, n)]

\* adv7604_get_edid called with one of args
GetEdidCall(args) ==
  /\ pc = "idle"
  /\ \E a \in args :
       LET g == get_edid(a) IN
       /\ op' = "get_edid"
       /\ ret' = g.ret
       /\ edid_out' = [start_block |-> a.start_block, asked |-> a.blocks,
                       blocks |-> g.blocks, data |-> g.data]
  /\ UNCHANGED << chip, mode, timings, restart_stdi_once, edid, edid_blocks,
                  aspect_ratio, regs, hotplug, work, pc, e, out, q, h >>
  /\ UNCHANGED auxVars

GetEdid == GetEdidCall(GetEdidArgs)

\* get_edid calls with block counts up to the largest u32
GetEdidWideArgs ==
  [ pad : {0}, start_block : 0 .. 2, blocks : {0, 1, 2, 3, 256, -1},
    null : {FALSE} ]

GetEdidWide == GetEdidCall(GetEdidWideArgs)

\* set_edid calls before them: a clear, one block, two blocks, three
ReadEdidArgs ==
  [ pad : {0}, start_block : {0}, blocks : 0 .. MaxEdidBlocksArg,
    data : HintEdidBlobs ]

SetEdidRead == SetEdidCall(ReadEdidArgs)

(* ----------------------------------------------------------------------- *)
(* Two calls of adv7604_query_dv_timings on two CPUs                        *)
(* ----------------------------------------------------------------------- *)

\* The file takes no lock. Each of the two calls has read a STDI sample that
\* none of the three stdi2dv_timings calls resolves and stands before the
\* test of state->restart_stdi_once; from there it runs the code line by
\* line, each cp_write_and_or as a bus read and a bus write.
Threads == {1, 2}

\* at: the line the call stands at; n: the cp_write_and_or it is in;
\* rd: what its cp_read returned; ret: its return value
ThrInit ==
  [ p |-> [t \in Threads |-> [at |-> "test", n |-> 0, rd |-> 0, ret |-> 0]],
    restarts |-> 0 ]

ThrFrame ==
  UNCHANGED << chip, mode, timings, edid, edid_blocks, aspect_ratio, hotplug,
               work, pc, e, op, ret, out, edid_out, q, h, bus,
               detect_tx_5v_ctrl, removed >>

\* if (state->restart_stdi_once)
ThrTest(t) ==
  /\ thr.p[t].at = "test"
  /\ thr' = [thr EXCEPT !.p[t] =
               IF restart_stdi_once THEN [@ EXCEPT !.at = "read", !.n = 1]
               ELSE [@ EXCEPT !.at = "done", !.ret = -ERANGE]]
  /\ UNCHANGED << regs, restart_stdi_once >>
  /\ ThrFrame

\* cp_read(sd, 0x86) of the cp_write_and_or the call is in
ThrRead(t) ==
  /\ thr.p[t].at = "read"
  /\ thr' = [thr EXCEPT !.p[t] = [@ EXCEPT !.at = "write",
                                            !.rd = regs[Reg_CP_86]]]
  /\ UNCHANGED << regs, restart_stdi_once >>
  /\ ThrFrame

\* cp_write(sd, 0x86, (read & 0xf9) | val); the second one triggers the
\* restart
ThrWrite(t) ==
  /\ thr.p[t].at = "write"
  /\ LET n == thr.p[t].n IN
     /\ regs' = write_reg(regs, Reg_CP_86,
                          BitOr(BitAnd(thr.p[t].rd, 249),
                                stdi_restart_values[n]))
     /\ thr' = [thr EXCEPT
                  !.p[t] = IF n < Len(stdi_restart_values)
                           THEN [@ EXCEPT !.at = "read", !.n = n + 1]
                           ELSE [@ EXCEPT !.at = "clear"],
                  !.restarts = IF n = 2 THEN @ + 1 ELSE @]
  /\ UNCHANGED restart_stdi_once
  /\ ThrFrame

\* state->restart_stdi_once = false; return -ENOLINK;
ThrClear(t) ==
  /\ thr.p[t].at = "clear"
  /\ restart_stdi_once' = FALSE
  /\ thr' = [thr EXCEPT !.p[t] = [@ EXCEPT !.at = "done", !.ret = -ENOLINK]]
  /\ UNCHANGED regs
  /\ ThrFrame

ThrStepTest == \E t \in Threads : ThrTest(t)

ThrStepRead == \E t \in Threads : ThrRead(t)

ThrStepWrite == \E t \in Threads : ThrWrite(t)

ThrStepClear == \E t \in Threads : ThrClear(t)

NextRace == ThrStepTest \/ ThrStepRead \/ ThrStepWrite \/ ThrStepClear

(* ----------------------------------------------------------------------- *)
(* Teardown: adv7604_remove                                                 *)
(* ----------------------------------------------------------------------- *)

\* variant: nothing is cancelled
cancel_delayed_work_none(w, grabbed) == w

\* cancel_delayed_work(): a work whose timer runs is cancelled; one whose
\* timer has expired waits on the work queue, and grabbed tells whether it
\* is taken off the queue
cancel_delayed_work(w, grabbed) ==
  IF w.pending /\ (w.timer > 0 \/ grabbed) THEN [w EXCEPT !.pending = FALSE]
  ELSE w

\* destroy_workqueue() runs what waits on the work queue
workqueue_drained(w) == w.pending /\ w.timer = 0

\* adv7604_remove, called while no other call runs
Remove ==
  /\ ~removed
  /\ pc = "idle"
  /\ \E grabbed \in BOOLEAN :
       LET w == cancel_delayed_work(work, grabbed) IN
       /\ hotplug' = IF workqueue_drained(w) THEN 1 ELSE hotplug
       /\ work' = IF workqueue_drained(w) THEN [w EXCEPT !.pending = FALSE]
                  ELSE w
  /\ removed' = TRUE
  /\ op' = "remove"
  /\ ret' = 0
  /\ UNCHANGED << chip, mode, timings, restart_stdi_once, edid, edid_blocks,
                  aspect_ratio, regs, pc, e, out, edid_out, q, h, bus,
                  detect_tx_5v_ctrl, thr >>

\* the calls into the driver stop with adv7604_remove; the timer and the
\* work queue are the kernel's
NextTeardown ==
  \/ ~removed /\ (SetEdid \/ EdidWriteChunk \/ EdidEnable \/ EdidPoll)
  \/ Tick
  \/ EnableHotplugWork
  \/ Remove

(* ----------------------------------------------------------------------- *)
(* Specifications                                                           *)
(* ----------------------------------------------------------------------- *)

\* the state adv7604_probe leaves: kzalloc'ed state, restart_stdi_once set,
\* adv7604_core_init has run disable_input
\* and no source was connected when adv7604_s_detect_tx_5v_ctrl ran
Init ==
  /\ chip \in {ADV7604, ADV7611}
  /\ mode = ADV7604_MODE_COMP
  /\ timings = ZeroTimings
  /\ restart_stdi_once = TRUE
  /\ edid = [b \in 0 .. 1 |-> 0]
  /\ edid_blocks = 0
  /\ aspect_ratio = [numerator |-> 0, denominator |-> 0]
  /\ regs = disable_input([a \in RegSet |-> IF a = Reg_CP_86 THEN 11 ELSE 0])
  /\ hotplug = 0
  /\ work = [pending |-> FALSE, timer |-> 0]
  /\ pc = "idle"
  /\ e = EdidCallInit
  /\ op = "probe"
  /\ ret = 0
  /\ out = ZeroTimings
  /\ edid_out = NoEdidOut
  /\ q = QueryFacts
  /\ h = HistoryInit
  /\ bus = BusInit
  /\ detect_tx_5v_ctrl = 0
  /\ removed = FALSE
  /\ thr = ThrInit

NextDetect == QueryDvTimings \/ SRouting

NextEdid ==
  \/ SetEdid
  \/ EdidWriteChunk
  \/ EdidEnable
  \/ EdidPoll
  \/ Tick
  \/ EnableHotplugWork
  \/ GetEdid

NextBus == GRegister \/ SRegister \/ SmbusWriteBlock

NextIsr == Isr \/ SRouting

NextMatch == QueryTableSample \/ SRouting \/ QueryShortLine

NextEdidPoll ==
  \/ SetEdidPoll
  \/ EdidWriteChunk
  \/ EdidEnable
  \/ EdidPollStep
  \/ EdidPollExit

NextMonitor == GInputStatus \/ SRouting

NextEdidStatus ==
  \/ SetEdidPoll
  \/ EdidWriteChunk
  \/ EdidEnable
  \/ EdidPollPass
  \/ EdidPollTimeout

NextHotplug ==
  \/ SetEdidPoll
  \/ EdidWriteChunk
  \/ EdidEnable
  \/ EdidPoll
  \/ Tick
  \/ EnableHotplugWork

NextEdidRead ==
  \/ SetEdidRead
  \/ EdidWriteChunk
  \/ EdidEnable
  \/ EdidPoll
  \/ GetEdidWide

NextTimings == SDvTimings \/ GDvTimings \/ SRouting

NextConfig ==
  \/ SDvTimingsFew
  \/ GDvTimings
  \/ SRoutingHdmi
  \/ QueryShortLine
  \/ IsrQuietOrAll
  \/ SetEdidClearOrReject

NextHint ==
  \/ SetEdidHint
  \/ EdidWriteChunk
  \/ EdidEnable
  \/ EdidPoll
  \/ QueryGtfSample

Next == NextDetect \/ NextEdid \/ NextBus \/ Isr \/ QueryTableSample \/ Remove \/ NextRace
        \/ QueryGtfSample \/ QueryShortLine \/ GInputStatus
        \/ SDvTimings \/ GDvTimings

SpecDetect == Init /\ [][NextDetect]_vars

SpecEdid == Init /\ [][NextEdid]_vars

SpecBus == Init /\ [][NextBus]_vars

\* the running set_edid call is not preempted for ever: it takes its next
\* step, and mdelay() returns
SpecEdidPoll ==
  /\ Init
  /\ [][NextEdidPoll]_vars
  /\ WF_vars(EdidWriteChunk)
  /\ WF_vars(EdidEnable)
  /\ WF_vars(EdidPollStep \/ EdidPollExit)

SpecTeardown == Init /\ [][NextTeardown]_vars

SpecRace == Init /\ [][NextRace]_vars

SpecHint == Init /\ [][NextHint]_vars

SpecMonitor == Init /\ [][NextMonitor]_vars

SpecEdidStatus == Init /\ [][NextEdidStatus]_vars

\* the timer of a queued work runs down and the work queue runs a work
\* whose timer has expired
SpecHotplug ==
  /\ Init
  /\ [][NextHotplug]_vars
  /\ WF_vars(Tick)
  /\ WF_vars(EnableHotplugWork)

SpecEdidRead == Init /\ [][NextEdidRead]_vars

SpecTimings == Init /\ [][NextTimings]_vars

SpecConfig == Init /\ [][NextConfig]_vars

SpecIsr == Init /\ [][NextIsr]_vars

SpecMatch == Init /\ [][NextMatch]_vars

Spec == Init /\ [][Next]_vars

(* ----------------------------------------------------------------------- *)
(* Properties of the detection (SpecDetect)                                 *)
(* ----------------------------------------------------------------------- *)

\* the last query_dv_timings call ended with all three attempts failing
QueryFailed == op = "query_dv_timings" /\ q.path = "fail"

\* the last call wrote the restart sequence to CP 0x86: bits 2:1 set to
\* one-shot, trigger, continuous, in this order, and nothing else
RestartIssued ==
  /\ Len(q.cp86w) = Len(stdi_restart_values)
  /\ \A i \in 1 .. Len(q.cp86w) : BitAnd(q.cp86w[i], 6) = stdi_restart_values[i]

NoRestartIssued == q.cp86w = << >>

\* C1: in analog mode a failing detection either issues the restart sequence
\* and returns -ENOLINK or writes nothing to CP 0x86 and returns -ERANGE; the
\* first failing detection after initialization does the former, every
\* failing detection that follows another one with no resolution in between
\* does the latter, so that no two restarts occur without a resolution
\* between them.
C1_RestartOnce ==
  /\ h.restarts <= 1
  /\ QueryFailed =>
       /\ ~q.digital
       /\ \/ ret = -ENOLINK /\ RestartIssued /\ q.flag_before
          \/ ret = -ERANGE /\ NoRestartIssued /\ ~q.flag_before
       /\ ~restart_stdi_once
       /\ (h.total = 1 => ret = -ENOLINK /\ RestartIssued)
       /\ (h.fails >= 2 => ret = -ERANGE /\ NoRestartIssued)

\* a second failing detection in a row, after the one that restarted
C1_Witness ==
  /\ QueryFailed
  /\ h.fails = 2
  /\ h.restarts = 1
  /\ ret = -ERANGE
  /\ NoRestartIssued

\* C2: a failing detection that comes next after a detection which
\* resolved the analog timings and returned 0 (by whichever of the three
\* attempts) issues the restart sequence and returns -ENOLINK.
C2_ResolutionResetsRestart ==
  [][ (op = "query_dv_timings" /\ q.path = "analog" /\ ret = 0 /\ QueryFailed')
        => (ret' = -ENOLINK /\ RestartIssued') ]_vars

PixelclockLimit(digital) ==
  IF digital THEN DigitalMaxPixelclock ELSE AnalogMaxPixelclock

\* the call came to the pixel clock test with a resolved timing
QueryRanged == op = "query_dv_timings" /\ q.found /\ ~q.nosig_exit

\* C9: query_dv_timings returns 0 only with a pixel clock of at most
\* 170 MHz in the analog modes and 225 MHz in digital mode; a resolved
\* timing above the limit gives -ERANGE, one at or below the limit is
\* handed back with 0.
C9_PixelclockLimit ==
  /\ (op = "query_dv_timings" /\ ret = 0) =>
        /\ QueryRanged
        /\ out.pixelclock <= PixelclockLimit(q.digital)
  /\ QueryRanged =>
        /\ out = q.resolved
        /\ (out.pixelclock > PixelclockLimit(q.digital) =>
              ret = -ERANGE /\ ret # -ENOLINK)
        /\ (out.pixelclock <= PixelclockLimit(q.digital) => ret = 0)

\* a digital timing above 225 MHz was refused
C9_Witness ==
  /\ QueryRanged
  /\ q.digital
  /\ q.resolved.pixelclock > DigitalMaxPixelclock
  /\ ret = -ERANGE

\* a timing exactly at the limit was accepted, in either mode
C9_AtLimitDigital ==
  QueryRanged /\ q.digital /\ out.pixelclock = DigitalMaxPixelclock /\ ret = 0

C9_AtLimitAnalog ==
  QueryRanged /\ ~q.digital /\ out.pixelclock = AnalogMaxPixelclock /\ ret = 0

\* C10: query_dv_timings returns -ENOLINK with all-zero timings when
\* no_signal() is true at entry and when it is true after the timings were
\* resolved, in the analog and the digital mode.
C10_NoLinkZeroTimings ==
  op = "query_dv_timings" =>
     /\ q.nosig_entry =>
          (ret = -ENOLINK /\ out = ZeroTimings /\ q.path = "nosignal")
     /\ (q.found /\ q.nosig_exit) => (ret = -ENOLINK /\ out = ZeroTimings)

\* the signal went away after a digital readout had filled the timings
C10_Witness ==
  /\ op = "query_dv_timings"
  /\ q.digital
  /\ q.found
  /\ q.nosig_exit
  /\ q.resolved # ZeroTimings
  /\ ret = -ENOLINK
  /\ out = ZeroTimings

(* ----------------------------------------------------------------------- *)
(* Properties of the EDID programming (SpecEdid)                            *)
(* ----------------------------------------------------------------------- *)

\* the last set_edid call has returned
SetEdidReturned == op = "set_edid" /\ pc = "idle"

LogHas(name) == \E i \in 1 .. Len(e.log) : e.log[i].ev = name

\* C3: whenever the deferred work asserts hotplug, the last set_edid call
\* is one that programmed the EDID successfully, a full delay earlier.
C3_HotplugInOrder ==
  op = "enable_hotplug" =>
     (e.last = "set_ok" /\ e.age >= HotplugDelayTicks)

RECURSIVE ChunkEvents(_, _)
ChunkEvents(i, len) ==
  IF i >= len THEN << >>
  ELSE << Ev("chunk", i) >> \o ChunkEvents(i + I2C_SMBUS_BLOCK_MAX, len)

\* the bus traffic of a set_edid call that programs the EDID, in order
ProgramLog(blocks) ==
  << Ev("hotplug", 0), Ev("ctrl", 0) >> \o ChunkEvents(0, 128 * blocks) \o
  << Ev("ctrl", 1), Ev("poll", 0), Ev("sched", 0) >>

IsPrefix(s, t) ==
  /\ Len(s) <= Len(t)
  /\ \A i \in 1 .. Len(s) : s[i] = t[i]

\* C4: a set_edid call with 1 or 2 blocks deasserts hotplug, clears the low
\* nibble of the EDID control register, writes the 128 * blocks bytes in
\* 32-byte chunks at ascending offsets, sets the nibble to 1, polls the
\* status register and then queues the hotplug work, in this order; while
\* the chunks are written the nibble is 0.
C4_ProgramOrder ==
  e.path = "program" =>
     /\ e.args.blocks \in {1, 2}
     /\ e.len = 128 * e.args.blocks
     /\ IsPrefix(e.log, ProgramLog(e.args.blocks))
     /\ Len(e.log) >= 2
     /\ (pc = "write" => EdidCtrlNibble(regs) = 0)
     /\ (pc = "poll" => EdidCtrlNibble(regs) = 1 /\ ~LogHas("poll"))
     /\ (LogHas("sched") => e.log = ProgramLog(e.args.blocks))
     /\ (SetEdidReturned /\ ret = 0) => e.log = ProgramLog(e.args.blocks)

\* a two-block EDID was programmed to the end, over an earlier one
C4_Witness ==
  /\ SetEdidReturned
  /\ e.path = "program"
  /\ e.args.blocks = 2
  /\ e.prev_blocks # 0
  /\ ret = 0
  /\ e.log = ProgramLog(2)

\* C5: when none of the 1000 status reads has the valid bit set, set_edid
\* returns -EIO and has not queued the hotplug work in that call; when one
\* of them has, it returns 0 and has queued it.
C5_PollTimeout ==
  (SetEdidReturned /\ e.path = "program" /\ LogHas("poll")) =>
     /\ (e.k >= EdidPollMax) =>
           (ret = -EIO /\ ~LogHas("sched") /\ e.last = "set_failed")
     /\ (e.k < EdidPollMax) => (ret = 0 /\ LogHas("sched"))

\* the poll ran out with no hotplug work pending
C5_Witness ==
  /\ SetEdidReturned
  /\ e.path = "program"
  /\ LogHas("poll")
  /\ e.k = EdidPollMax
  /\ ret = -EIO
  /\ ~work.pending

\* what a rejected set_edid call leaves alone
SetEdidNoEffect ==
  UNCHANGED << hotplug, regs, edid, edid_blocks, aspect_ratio, work, pc >>

\* C6: a set_edid call with pad or start_block nonzero returns -EINVAL, one
\* with pad and start_block zero and more than 2 blocks returns -E2BIG; in
\* both cases hotplug, the registers, state->edid, state->edid_blocks and
\* state->aspect_ratio are as before the call.
C6_RejectedUnchanged ==
  [][ (pc = "idle" /\ op' = "set_edid") =>
        LET a == e'.args IN
        /\ (a.pad # 0 \/ a.start_block # 0) =>
              (ret' = -EINVAL /\ SetEdidNoEffect)
        /\ (a.pad = 0 /\ a.start_block = 0 /\ a.blocks > 2) =>
              (ret' = -E2BIG /\ SetEdidNoEffect) ]_vars

\* a call with 3 blocks was refused while a two-block EDID is stored and
\* hotplug is asserted
C6_Witness ==
  /\ SetEdidReturned
  /\ e.path = "rejected"
  /\ e.args.blocks > 2
  /\ ret = -E2BIG
  /\ edid_blocks = 2
  /\ hotplug = 1

SixteenNine == [numerator |-> 16, denominator |-> 9]

\* C8: the clear operation (set_edid with 0 blocks) returns with
\* edid_blocks 0 and the aspect ratio 16:9, having deasserted hotplug and
\* then cleared the low nibble of the EDID control register; as long as
\* edid_blocks is 0, get_edid fails and hands back no data.
C8_ClearEdid ==
  /\ (SetEdidReturned /\ e.path = "clear") =>
        /\ ret = 0
        /\ edid_blocks = 0
        /\ aspect_ratio = SixteenNine
        /\ hotplug = 0
        /\ EdidCtrlNibble(regs) = 0
        /\ e.log = << Ev("hotplug", 0), Ev("ctrl", 0) >>
  /\ (e.last = "clear" /\ pc = "idle") =>
        (edid_blocks = 0 /\ aspect_ratio = SixteenNine)
  /\ (op = "get_edid" /\ edid_blocks = 0) =>
        (ret = -EINVAL /\ edid_out.data = << >>)

\* get_edid ran after a two-block EDID was cleared
C8_Witness ==
  /\ op = "get_edid"
  /\ e.last = "clear"
  /\ e.prev_blocks = 2
  /\ edid_blocks = 0
  /\ aspect_ratio = SixteenNine
  /\ ret = -EINVAL
  /\ edid_out.data = << >>

(* ----------------------------------------------------------------------- *)
(* Register access layer: pages and transfers                               *)
(* ----------------------------------------------------------------------- *)

\* the pages whose bit is set in a page mask
PagesOf(mask) == { p \in 0 .. 30 : (mask \div 2^p) % 2 = 1 }

RegisterCall == op \in {"g_register", "s_register"}

\* C12: a register read or write on a page that is not in the page mask of
\* the chip, any page from 13 on included, returns -EINVAL without a bus
\* transfer; on a page of the mask every transfer goes to the client of that
\* page with the low 8 bits of the address as its command
C12_PagedAccess ==
  RegisterCall =>
    LET page == bus.reg \div 256 IN
    IF page \in PagesOf(info.page_mask) /\ page < 13
    THEN /\ bus.xfers # << >>
         /\ \A i \in 1 .. Len(bus.xfers) :
              /\ bus.xfers[i].client = page_client[page]
              /\ bus.xfers[i].command = bus.reg % 256
    ELSE ret = -EINVAL /\ bus.xfers = << >>

\* a read of the AVLINK page on the chip without that page
C12_Witness ==
  /\ op = "g_register"
  /\ chip = ADV7611
  /\ bus.reg = ADV7604_REG(ADV7604_PAGE_AVLINK, 21)
  /\ ret = -EINVAL
  /\ bus.xfers = << >>

FailedXfers(x) == { i \in 1 .. Len(x) : x[i].err # 0 }

\* C13: a bus write is attempted at most 3 times, no attempt follows a
\* successful one, and the caller sees a bus error only after 3 failed
\* attempts; a register read that fails is attempted once and returns the
\* error
C13_WriteRetriedReadOnce ==
  /\ (op \in {"s_register", "write_block"} /\ bus.xfers # << >>) =>
       LET n == Len(bus.xfers) IN
       /\ n <= 3
       /\ \A i \in 1 .. n - 1 : bus.xfers[i].err # 0
       /\ ret < 0 => (n = 3 /\ FailedXfers(bus.xfers) = 1 .. 3)
  /\ (op = "g_register" /\ FailedXfers(bus.xfers) # {}) =>
       (Len(bus.xfers) = 1 /\ ret = -EIO)

(* ----------------------------------------------------------------------- *)
(* InterruptDispatcher                                                      *)
(* ----------------------------------------------------------------------- *)

\* the bits of a latched status register the handler has read under a mask:
\* none when the register was not read or the read failed
ObservedBits(command, mask) ==
  LET S == { i \in 1 .. Len(bus.xfers) :
               bus.xfers[i].dir = "read" /\ bus.xfers[i].command = command }
  IN IF S = {} THEN 0
     ELSE LET x == bus.xfers[CHOOSE i \in S : TRUE]
          IN IF x.err = 0 THEN BitAnd(x.value, mask) ELSE 0

\* the values the handler has written to a clear register
ClearWrites(command) ==
  { bus.xfers[i].value : i \in { j \in 1 .. Len(bus.xfers) :
        bus.xfers[j].dir = "write" /\ bus.xfers[j].command = command } }

ClearsObserved(status, mask, clear) ==
  ClearWrites(clear) = IF ObservedBits(status, mask) = 0 THEN {}
                       ELSE {ObservedBits(status, mask)}

\* C14: one invocation of the interrupt handler writes to each clear
\* register the masked bits it read from the latched status register and
\* nothing when these are zero, sends one format-change notification when a
\* format-change bit was observed and none otherwise, and sets *handled
\* exactly when some condition was observed
C14_IsrClearsObserved ==
  op = "isr" =>
    LET fc == ObservedBits(67, 152)
        fcd == IF DIGITAL_INPUT(mode)
               THEN ObservedBits(107, info.fmt_change_digital_mask) ELSE 0
        tx == ObservedBits(112, info.cable_det_mask)
    IN /\ ClearsObserved(67, 152, 68)
       /\ ClearWrites(108) = IF fcd = 0 THEN {} ELSE {fcd}
       /\ ClearsObserved(112, info.cable_det_mask, 113)
       /\ Len(bus.notify) = IF fc # 0 \/ fcd # 0 THEN 1 ELSE 0
       /\ bus.handled_in # "null" =>
            (bus.handled = "true" <=> (fc # 0 \/ fcd # 0 \/ tx # 0))

(* ----------------------------------------------------------------------- *)
(* ModeConfigurator                                                         *)
(* ----------------------------------------------------------------------- *)

RoutingAccepted == op = "s_routing" /\ ret = 0

\* C15: an accepted s_routing call that follows an accepted s_routing call
\* with the same mode changes neither a register nor the state of the
\* receiver, on either chip
C15_RoutingIdempotent ==
  [][ (RoutingAccepted /\ RoutingAccepted' /\ mode' = mode) =>
        UNCHANGED << regs, mode, timings, restart_stdi_once, edid, edid_blocks,
                     aspect_ratio, hotplug, work >> ]_vars

\* the second of two accepted calls that select HDMI on the chip without an
\* analog front end
C15_Witness ==
  /\ RoutingAccepted
  /\ h.routed = 2
  /\ chip = ADV7611
  /\ mode = ADV7604_MODE_HDMI
  /\ regs[IoReg(21)] = 160

(* ----------------------------------------------------------------------- *)
(* TimingResolver: the table                                                *)
(* ----------------------------------------------------------------------- *)

\* a detection that has resolved the readout of a table entry's signal
TableSampleResolved ==
  /\ op = "query_dv_timings"
  /\ q.entry # 0
  /\ ~q.nosig_entry
  /\ q.path # "nostdi"

\* C16: the analog resolution of a STDI readout built from an entry of
\* adv7604_timings (lcf = vtotal - 1, lcvs = vsync, bl the 8 fsc count of
\* the entry's line) returns that entry, standards and flags included, by
\* the first stdi2dv_timings call
C16_TableRoundTrip ==
  TableSampleResolved =>
    /\ q.path = "analog"
    /\ q.attempt = 1
    /\ q.resolved = adv7604_timings[q.entry]

(* ----------------------------------------------------------------------- *)
(* EdidHotplugController: termination                                       *)
(* ----------------------------------------------------------------------- *)

\* C17: every set_edid call returns; its poll loop makes at most 1000
\* passes, each with one status read and a delay of 1 ms, and the call then
\* returns 0 or -EIO
C17_SetEdidTerminates ==
  /\ [](pc = "poll" => e.k <= EdidPollMax)
  /\ []((SetEdidReturned /\ LogHas("poll")) =>
          /\ (e.k < EdidPollMax => ret = 0)
          /\ (e.k = EdidPollMax => ret = -EIO))
  /\ (pc # "idle") ~> (pc = "idle")

\* a call that has returned after the last pass of the poll loop
C17_Witness ==
  /\ SetEdidReturned
  /\ LogHas("poll")
  /\ e.k = EdidPollMax
  /\ e.last = "set_failed"
  /\ ret = -EIO

(* ----------------------------------------------------------------------- *)
(* Teardown                                                                 *)
(* ----------------------------------------------------------------------- *)

\* C18: once adv7604_remove has returned the hotplug work is not pending
\* and no hotplug notification is delivered any more
C18_NoHotplugAfterRemove ==
  /\ [](removed => ~work.pending)
  /\ [][removed => (hotplug' = hotplug /\ op' # "enable_hotplug")]_vars

\* removed before the delay of a successful set_edid had passed
C18_Witness ==
  /\ removed
  /\ e.last = "set_ok"
  /\ e.age < HotplugDelayTicks
  /\ hotplug = 0
  /\ ~work.pending

(* ----------------------------------------------------------------------- *)
(* Serialization                                                            *)
(* ----------------------------------------------------------------------- *)

\* C19: two failing analog detections that run side by side on one
\* receiver test and clear restart_stdi_once as one step, so that they
\* trigger at most one STDI restart between them
C19_OneRestartBetweenTwo == thr.restarts <= 1

(* ----------------------------------------------------------------------- *)
(* The aspect ratio handed to the GTF synthesis                             *)
(* ----------------------------------------------------------------------- *)

AnalogBranchRan == op = "query_dv_timings" /\ q.path \in {"analog", "fail"}

\* no set_edid call has passed the argument checks yet
NoEdidCallYet == e.last = "none"

\* the ratio of bytes 0x15 and 0x16 of the EDID that was stored last
StoredEdidRatio ==
  LET b == CHOOSE x \in HintEdidBlobs : x.tag = edid[0]
  IN v4l2_calc_aspect_ratio(b.b15, b.b16)

\* C20 as stated: the ratio handed to v4l2_detect_gtf is that of the EDID
\* set last, and 16:9 when none was written, from initialization on
C20_HintSixteenNineFromInit ==
  AnalogBranchRan =>
    q.aspect = IF NoEdidCallYet \/ edid_blocks = 0 THEN SixteenNine
               ELSE StoredEdidRatio

\* C20: the ratio handed to v4l2_detect_gtf is that of the EDID set last,
\* 16:9 after a clear, and the zero ratio 0/0 of the allocation from
\* initialization until the first set_edid call that is not rejected
C20_HintPassed ==
  AnalogBranchRan =>
    q.aspect = IF NoEdidCallYet THEN [numerator |-> 0, denominator |-> 0]
               ELSE IF edid_blocks = 0 THEN SixteenNine
               ELSE StoredEdidRatio

\* a GTF timing synthesised before any set_edid call
C20_Witness ==
  /\ AnalogBranchRan
  /\ NoEdidCallYet
  /\ q.resolved.standards = V4L2_DV_BT_STD_GTF
  /\ q.aspect = [numerator |-> 0, denominator |-> 0]
  /\ ret = 0

(* ----------------------------------------------------------------------- *)
(* TimingResolver: the three attempts                                       *)
(* ----------------------------------------------------------------------- *)

\* the lcvs values L, L + 1, L - 1 of a sampled L, in 16 bits
LcvsOrder(L) == << L, (L + 1) % 65536, (L + 65535) % 65536 >>

\* the k-th call of stdi2dv_timings of the last query can fail, can succeed
TryResults(k) ==
  stdi2dv_timings(q.tries[k], q.aspect, analog_entry_timings(q.stdi))

PixelclockNear(hfreq, entry) ==
  /\ hfreq <= (entry.pixelclock + 1000000 - 1) \div htotal(entry)
  /\ hfreq >= (entry.pixelclock - 1000000) \div htotal(entry) + 1

\* the entries of the table that qualify for a readback
Qualifying(stdi) ==
  { i \in 1 .. Len(adv7604_timings) :
      /\ vtotal(adv7604_timings[i]) = stdi.lcf + 1
      /\ adv7604_timings[i].vsync = stdi.lcvs
      /\ PixelclockNear((28636360 * 8) \div stdi.bl, adv7604_timings[i]) }

FirstOf(S) == CHOOSE i \in S : \A j \in S : i <= j

TableEntries == { adv7604_timings[i] : i \in 1 .. Len(adv7604_timings) }

\* C22: a call of stdi2dv_timings returns a table entry iff one qualifies
\* (line count lcf + 1, vsync lcvs, hfreq * htotal within 1,000,000 Hz of
\* the pixel clock, hfreq = (28636360 * 8) / bl), the first one in table
\* order; a synthesised format is returned, and a failure reported, only
\* when none qualifies
C22_TableMatchIffQualifies ==
  AnalogBranchRan =>
    LET n == Len(q.tries) IN
    /\ \A k \in 1 .. n - 1 : Qualifying(q.tries[k]) = {}
    /\ q.path = "fail" => Qualifying(q.tries[n]) = {}
    /\ q.path = "analog" =>
         IF Qualifying(q.tries[n]) # {}
         THEN q.resolved = adv7604_timings[FirstOf(Qualifying(q.tries[n]))]
         ELSE q.resolved \notin TableEntries

(* ----------------------------------------------------------------------- *)
(* The restart protocol and the digital branch                              *)
(* ----------------------------------------------------------------------- *)

DigitalQueryStep == op' = "query_dv_timings" /\ q'.digital

\* C23: a query_dv_timings call in the HDMI mode writes no register, the
\* three writes of the STDI restart to CP 0x86 included, and leaves
\* restart_stdi_once as it was, whether it returns 0, -ENOLINK or -ERANGE
C23_DigitalNeverRestarts ==
  [][DigitalQueryStep =>
       /\ regs' = regs
       /\ q'.cp86w = << >>
       /\ restart_stdi_once' = restart_stdi_once
       /\ restart_stdi_once' = q'.flag_before]_vars

\* a digital detection that ends out of range with the restart still armed
C23_Witness ==
  /\ op = "query_dv_timings"
  /\ q.digital
  /\ q.path = "digital"
  /\ ret = -ERANGE
  /\ restart_stdi_once
  /\ q.cp86w = << >>

(* ----------------------------------------------------------------------- *)
(* SignalMonitor                                                            *)
(* ----------------------------------------------------------------------- *)

InputStatusRan == op = "g_input_status"

NoSignalReported == BitAnd(bus.val, V4L2_IN_ST_NO_SIGNAL) # 0

\* the chip or the CP core is powered down
PoweredDown(s) == s.io0c \in {70, 98}

StdiUnlocked(s) == s.cpb1 = 0

\* the TMDS clock is not locked on port A, or no TMDS signal is detected
TmdsAbsent(s) ==
  \/ BitAnd(s.io6a, info.tdms_lock_mask) # info.tdms_lock_mask
  \/ s.io6a \in {0, 227}

ReadsOf(client, command) ==
  { k \in 1 .. Len(bus.xfers) :
      bus.xfers[k].client = client /\ bus.xfers[k].command = command }

SspdUnlocked(s) == s.cpb5 \in {1, 144}

\* C25: on a chip with an analog front end an SSPD that is not locked (CP
\* 0xb5 without all bits of 0xd0) makes no_signal true; on a chip without
\* one the SSPD counts as locked and CP 0xb5 is not consulted
C25_SspdLockPerVariant ==
  InputStatusRan =>
    IF adv7604_has_afe(info)
    THEN SspdUnlocked(bus.st) => NoSignalReported
    ELSE ReadsOf("i2c_cp", 181) = {}

(* ----------------------------------------------------------------------- *)
(* InterruptDispatcher: cable detect                                        *)
(* ----------------------------------------------------------------------- *)

\* the handler has read IO 0x70 with every latched cable-detect bit set
CableDetectLatched ==
  \E k \in 1 .. Len(bus.xfers) :
    /\ bus.xfers[k].dir = "read" /\ bus.xfers[k].command = 112
    /\ bus.xfers[k].err = 0 /\ bus.xfers[k].value = 255

\* the reads of a register the handler has made
StatusReads(command) ==
  { k \in 1 .. Len(bus.xfers) :
      bus.xfers[k].dir = "read" /\ bus.xfers[k].command = command }

\* C26: on the ADV7604 and on the ADV7611, an invocation of the handler
\* that finds the cable-detect status latched in IO 0x70 writes to the
\* clear register IO 0x71, reads IO 0x6f, sets the power-present control
\* to the 5V level read there and reports the interrupt as handled
C26_CableDetectHandled ==
  (op = "isr" /\ CableDetectLatched) =>
    /\ ClearWrites(113) # {}
    /\ StatusReads(111) # {}
    /\ \A k \in StatusReads(111) :
         detect_tx_5v_ctrl = IF bus.xfers[k].value # 0 THEN 1 ELSE 0
    /\ bus.handled_in # "null" => bus.handled = "true"

(* ----------------------------------------------------------------------- *)
(* ModeConfigurator: the order of the writes                                *)
(* ----------------------------------------------------------------------- *)

KnownModes == {ADV7604_MODE_COMP, ADV7604_MODE_GR, ADV7604_MODE_HDMI}

\* tristate the outputs, mute the audio, switch the termination off
DisablePhase ==
  << << IoReg(21), 190 >>, << HdmiReg(26), 26 >>,
     IF chip = ADV7604 THEN << HdmiReg(1), 120 >> ELSE << HdmiReg(131), 255 >> >>

\* the preset of the chip profile for the mode
PresetOf(m) ==
  IF chip = ADV7604
  THEN (IF m = ADV7604_MODE_HDMI THEN adv7604_recommended_settings_hdmi
        ELSE adv7604_recommended_settings_afe)
  ELSE (IF m = ADV7604_MODE_HDMI THEN adv7611_recommended_settings_hdmi
        ELSE << >>)

\* the writes that enable the outputs; audio and termination in HDMI only
EnableSet(m) ==
  IF m = ADV7604_MODE_HDMI
  THEN { << IoReg(21), 160 >>, << HdmiReg(26), 10 >>,
         IF chip = ADV7604 THEN << HdmiReg(1), 0 >> ELSE << HdmiReg(131), 254 >> }
  ELSE { << IoReg(21), 176 >> }

C28_ModeKnownOutputsEnabled ==
  /\ mode \in KnownModes
  /\ RoutingAccepted => regs[IoReg(21)] # 190

(* ----------------------------------------------------------------------- *)
(* ModeConfigurator: predefined and custom timings                          *)
(* ----------------------------------------------------------------------- *)

SetAccepted == op = "s_dv_timings" /\ ret = 0

AnalogModes == {ADV7604_MODE_COMP, ADV7604_MODE_GR}

\* the entries of a predefined table the configured timings match
PredefMatches(tbl) ==
  { i \in 1 .. Len(tbl) :
      v4l_match_dv_timings(timings, adv7604_timings[tbl[i][1]],
                           IF mode = ADV7604_MODE_HDMI THEN 250000
                           ELSE 1000000) }

\* the component table of the mode, then its graphics table, with prim_mode
FirstTable ==
  IF mode = ADV7604_MODE_HDMI
  THEN [tbl |-> adv7604_prim_mode_hdmi_comp, prim_mode |-> 5]
  ELSE [tbl |-> adv7604_prim_mode_comp, prim_mode |-> 1]

SecondTable ==
  IF mode = ADV7604_MODE_HDMI
  THEN [tbl |-> adv7604_prim_mode_hdmi_gr, prim_mode |-> 6]
  ELSE [tbl |-> adv7604_prim_mode_gr, prim_mode |-> 2]

PredefFound ==
  PredefMatches(FirstTable.tbl) \cup PredefMatches(SecondTable.tbl) # {}

\* IO 0x00 and IO 0x01 hold the standard and frequency id of the first
\* match, the component table first
PredefWritten ==
  LET x == IF PredefMatches(FirstTable.tbl) # {} THEN FirstTable
           ELSE SecondTable
      i == FirstOf(PredefMatches(x.tbl))
  IN /\ regs[IoReg(0)] = x.tbl[i][2]
     /\ regs[IoReg(1)] = x.tbl[i][3] * 16 + x.prim_mode

\* the active video window registers CP 0xa2 .. 0xa7 and the free run
\* registers hold their reset value, and so does the PLL divisor
CustomAtReset ==
  /\ \A o \in {162, 163, 164, 165, 166, 167} : regs[CpReg(o)] = 0
  /\ \A k \in 1 .. Len(bus.writes) :
       /\ bus.writes[k][1] = IoReg(22) => bus.writes[k][2] = 67
       /\ bus.writes[k][1] = IoReg(23) => bus.writes[k][2] = 90

\* the PLL divisor is the total horizontal pixel count
PllDerived ==
  (regs[IoReg(22)] - 192) * 256 + regs[IoReg(23)] = htotal(timings)

\* the window edges decode to the values the porches and syncs give
EdgesDerived ==
  /\ regs[CpReg(162)] * 16 + regs[CpReg(163)] \div 16
       = timings.hsync + timings.hbackporch - 4
  /\ (regs[CpReg(163)] % 16) * 256 + regs[CpReg(164)]
       = htotal(timings) - timings.hfrontporch
  /\ regs[CpReg(165)] * 16 + regs[CpReg(166)] \div 16
       = vtotal(timings) - timings.vfrontporch
  /\ (regs[CpReg(166)] % 16) * 256 + regs[CpReg(167)]
       = timings.vsync + timings.vbackporch

\* no bus transfer of the call has failed
NoFailedXfer == \A k \in 1 .. Len(bus.xfers) : bus.xfers[k].err = 0

LastSetEnriched ==
  adv7604_fill_optional_dv_timings_fields(h.set_mode, h.set_arg)

\* C30: the configured timing is the enriched argument of the most recent
\* successful s_dv_timings, g_dv_timings returns it, and every step that
\* is not a successful s_dv_timings leaves it unchanged
C30_ConfiguredTiming ==
  /\ [](timings = LastSetEnriched)
  /\ [](op = "g_dv_timings" => ret = 0 /\ out = timings)
  /\ [][(op' # "s_dv_timings" \/ ret' # 0) => timings' = timings]_vars

\* g_dv_timings returns 720x576p50 with the table's pixel clock after a
\* set with a pixel clock 500 kHz off, and after other calls were made
C30_Witness ==
  /\ op = "g_dv_timings"
  /\ h.set_arg.pixelclock = 27500000
  /\ out = adv7604_timings[2]
  /\ mode = ADV7604_MODE_HDMI
  /\ e.path = "clear"
  /\ q.path # "none"

(* ----------------------------------------------------------------------- *)
(* EdidHotplugController: the stored block count bounds get_edid            *)
(* ----------------------------------------------------------------------- *)

GetEdidRan == op = "get_edid"

\* the request starts inside the stored blocks
StartsInside == ~ge_u32(edid_out.start_block, edid_blocks)

\* the blocks a request that starts inside may be given: what it asks for,
\* and no more than are stored from its start on
BlocksDue ==
  IF ge_u32(edid_out.asked, edid_blocks - edid_out.start_block)
  THEN edid_blocks - edid_out.start_block
  ELSE edid_out.asked

\* C31: the stored block count is 0, 1 or 2; a get_edid request starting
\* at or past it fails with -EINVAL and hands back nothing; one starting
\* inside is cut to the stored blocks and gets exactly these
C31_StoredCountBoundsReads ==
  /\ edid_blocks \in {0, 1, 2}
  /\ (GetEdidRan /\ ~StartsInside) =>
        (ret = -EINVAL /\ edid_out.data = << >>)
  /\ (GetEdidRan /\ ret = 0) =>
        /\ StartsInside
        /\ edid_out.blocks = BlocksDue
        /\ edid_out.data =
             [j \in 1 .. BlocksDue |-> edid[edid_out.start_block + j - 1]]

\* the same for the requests whose block count is below 2^31
C31_SmallRequests == edid_out.asked >= 0 => C31_StoredCountBoundsReads

\* a request for the second block and 2^32 - 1 blocks has returned 0
C31_WrapReached ==
  /\ GetEdidRan
  /\ ret = 0
  /\ edid_out.start_block = 1
  /\ edid_out.asked = -1
  /\ edid_blocks = 2

(* ----------------------------------------------------------------------- *)
(* EdidHotplugController: the deferred hotplug assertion                    *)
(* ----------------------------------------------------------------------- *)

\* the last call that programmed or cleared the EDID is a set_edid that
\* returned success, and no such call runs
SetOk == pc = "idle" /\ e.last = "set_ok"

\* a step of the set_edid call itself
SetEdidStep == SetEdidPoll \/ EdidWriteChunk \/ EdidEnable \/ EdidPoll

\* what holds of the deferred assertion whatever calls came before: a
\* successful call leaves one work pending, which runs unless the driver
\* is removed and is gone once it has run; hotplug rises only in a run
\* of the work, its delay having passed, never in a step of set_edid,
\* which has deasserted hotplug first; the work a call has queued itself
\* runs a full delay after the call
DeferredAssert ==
  /\ (SetOk /\ work.pending) ~> (op = "enable_hotplug" \/ ~SetOk)
  /\ [][(pc = "poll" /\ pc' = "idle" /\ ret' = 0) => work'.pending]_vars
  /\ [][(hotplug' = 1 /\ hotplug = 0) =>
          /\ op' = "enable_hotplug"
          /\ work.pending /\ work.timer = 0
          /\ ~work'.pending]_vars
  /\ [][SetEdidStep => hotplug' # 1 \/ hotplug = 1]_vars
  /\ []((op = "enable_hotplug" /\ SetOk /\ e.queued) =>
          e.age >= HotplugDelayTicks)
  /\ []((SetOk /\ e.path = "program") => e.log[1] = Ev("hotplug", 0))

\* C32: after a set_edid that returned success, unless another set_edid
\* or a clear follows, hotplug is asserted exactly once, in a run of the
\* deferred work and not before the delay has passed since the call,
\* never in a step of set_edid
C32_AssertedOnceAfterDelay ==
  /\ DeferredAssert
  /\ []((op = "enable_hotplug" /\ SetOk) => e.age >= HotplugDelayTicks)

\* the same for the calls that find no work pending
C32_QueuedWorkAsserts == DeferredAssert

\* the work a successful set_edid queued has asserted hotplug
C32_QueuedWorkRan ==
  /\ op = "enable_hotplug"
  /\ SetOk
  /\ e.queued
  /\ e.age = HotplugDelayTicks
  /\ hotplug = 1
  /\ ~work.pending

(* ----------------------------------------------------------------------- *)
(* ModeConfigurator: the limits of s_dv_timings                             *)
(* ----------------------------------------------------------------------- *)

\* cap->bt.max_width and cap->bt.max_height of adv7604_dv_timings_cap
CapMaxWidth == 1920
CapMaxHeight == 1200

SDvRan == op = "s_dv_timings"

\* the argument of the last s_dv_timings call
SDvArg == IF ret = 0 THEN h.set_arg ELSE out

\* the pixel clock is above cap->bt.max_pixelclock of the current mode
AboveCapPixelclock ==
  SDvArg.pixelclock >
    (IF mode = ADV7604_MODE_HDMI THEN DigitalMaxPixelclock
     ELSE AnalogMaxPixelclock)

AboveCapGeometry ==
  SDvArg.width > CapMaxWidth \/ SDvArg.height > CapMaxHeight

\* C33: s_dv_timings returns -ERANGE exactly for the timings whose pixel
\* clock, width or height is above the advertised limit, and a rejected
\* call leaves the configured timing and the registers as they were
C33_RejectsAboveCap ==
  /\ [](SDvRan => (ret = -ERANGE <=> (AboveCapPixelclock \/ AboveCapGeometry)))
  /\ [][(op' = "s_dv_timings" /\ ret' = -ERANGE) =>
          (timings' = timings /\ regs' = regs)]_vars

\* the same with the pixel clock as the only limit
C33_RejectsAbovePixelclock ==
  /\ [](SDvRan => (ret = -ERANGE <=> AboveCapPixelclock))
  /\ [][(op' = "s_dv_timings" /\ ret' = -ERANGE) =>
          (timings' = timings /\ regs' = regs)]_vars

\* 1792x1344p60 was set in HDMI mode
C33_TallFormatSet ==
  /\ SDvRan
  /\ ret = 0
  /\ mode = ADV7604_MODE_HDMI
  /\ timings.height = 1344
  /\ timings.pixelclock = 204750000

(* ----------------------------------------------------------------------- *)
(* ModeConfigurator: routing on the chip without analog front end           *)
(* ----------------------------------------------------------------------- *)

\* C34: on the ADV7611 an s_routing call with an input other than HDMI
\* returns -EINVAL, writes no register and leaves the mode and every
\* register as they were
C34_NoAfeRejectsAnalog ==
  [][(op' = "s_routing" /\ chip = ADV7611
        /\ bus'.val # ADV7604_MODE_HDMI) =>
       /\ ret' = -EINVAL
       /\ mode' = mode
       /\ regs' = regs
       /\ bus'.writes = << >>]_vars

\* the graphics input was asked for on an ADV7611 that had been routed to
\* HDMI; the outputs are still enabled
C34_Witness ==
  /\ op = "s_routing"
  /\ chip = ADV7611
  /\ bus.val = ADV7604_MODE_GR
  /\ ret = -EINVAL
  /\ mode = ADV7604_MODE_HDMI
  /\ regs[IoReg(21)] # 190

(* ----------------------------------------------------------------------- *)
(* EdidHotplugController: the read of the status register                   *)
(* ----------------------------------------------------------------------- *)

\* the step is the return of a set_edid call that programmed the EDID
PollEndsWithSuccess == pc = "poll" /\ pc' = "idle" /\ ret' = 0

\* the status read of the step went through and gave a byte with bit 0
ValidByteRead ==
  /\ Len(bus'.xfers) = 1
  /\ bus'.xfers[1].client = "i2c_repeater"
  /\ bus'.xfers[1].dir = "read"
  /\ bus'.xfers[1].err = 0
  /\ bus'.xfers[1].value % 2 = 1

\* C35: the poll ends with success, and the hotplug work is queued, only
\* on a status read that went through and gave a byte with bit 0 set
C35_SuccessNeedsValidRead ==
  [][(PollEndsWithSuccess \/ (work'.pending /\ ~work.pending))
       => ValidByteRead]_vars

\* the same for the calls that see no failing status read
C35_SuccessOnReadByte ==
  [][((PollEndsWithSuccess \/ (work'.pending /\ ~work.pending))
        /\ bus'.xfers[1].err = 0) => ValidByteRead]_vars

\* the first status read failed and set_edid returned 0 with the work
\* queued
C35_FailedReadTaken ==
  /\ SetEdidReturned
  /\ ret = 0
  /\ e.last = "set_ok"
  /\ e.k = 0
  /\ bus.val = -EIO
  /\ work.pending

(* ----------------------------------------------------------------------- *)
(* EdidHotplugController: the stored EDID                                   *)
(* ----------------------------------------------------------------------- *)

\* the last set_edid call went into programming and returned an error
SetFailed ==
  SetEdidReturned /\ e.path = "program" /\ e.last = "set_failed" /\ ret # 0

\* the stored EDID is the one of the arguments of the last call
StoredIsArgument ==
  /\ edid_blocks = e.args.blocks
  /\ \A b \in 0 .. 1 :
       edid[b] = IF b < e.args.blocks THEN e.args.data.tag ELSE e.prev_edid[b]
  /\ aspect_ratio = v4l2_calc_aspect_ratio(e.args.data.b15, e.args.data.b16)

\* the stored EDID is what it was before the last call
StoredIsPrevious ==
  /\ edid_blocks = e.prev_blocks
  /\ edid = e.prev_edid
  /\ aspect_ratio = e.prev_aspect

\* C36: the stored EDID is the one last programmed with success, or empty
\* after a clear, and a set_edid that fails while programming leaves the
\* stored block count, bytes and aspect ratio as they were before it
C36_FailedSetKeepsStored ==
  /\ (SetEdidReturned /\ e.path = "program" /\ ret = 0) => StoredIsArgument
  /\ (SetEdidReturned /\ e.path = "clear") =>
        (edid_blocks = 0 /\ aspect_ratio = SixteenNine)
  /\ SetFailed => StoredIsPrevious

\* what the code does: the EDID of a call that goes into programming is
\* stored whether the programming succeeds or not
C36_StoredBeforeProgramming ==
  /\ (SetEdidReturned /\ e.path = "program") => StoredIsArgument
  /\ (SetEdidReturned /\ e.path = "clear") =>
        (edid_blocks = 0 /\ aspect_ratio = SixteenNine)
  /\ (SetEdidReturned /\ e.path = "rejected") => StoredIsPrevious

\* a two-block set_edid timed out after a one-block EDID had been stored
C36_FailedSetStored ==
  /\ SetFailed
  /\ ret = -EIO
  /\ e.prev_blocks = 1
  /\ edid_blocks = 2
  /\ edid # e.prev_edid
  /\ aspect_ratio # e.prev_aspect

(* ----------------------------------------------------------------------- *)
(* AnalogAttempts: the lcvs values handed to the resolver                   *)
(* ----------------------------------------------------------------------- *)

\* the distance of two integers
IntDistance(a, b) == IF a >= b THEN a - b ELSE b - a

\* the lcvs of every readback handed to stdi2dv_timings by the last query
\* is at most 1 away from the sampled lcvs
TriesNearSample ==
  \A k \in 1 .. Len(q.tries) :
     IntDistance(q.tries[k].lcvs, q.stdi.lcvs) <= 1

\* C37: every lcvs value passed to the resolver in the three analog
\* attempts differs from the sampled value by at most 1 as an integer,
\* also for a sampled lcvs of 0
C37_AttemptsWithinOne == AnalogBranchRan => TriesNearSample

\* what the code does: the sampled lcvs is in 0 .. 31, the attempts stay
\* within 1 of it for a sample of 1 or more, and for a sample of 0 the
\* third attempt is made with 65535
C37_WrapOnlyAtZero ==
  AnalogBranchRan =>
    /\ q.stdi.lcvs \in 0 .. 31
    /\ q.stdi.lcvs >= 1 => TriesNearSample
    /\ (q.stdi.lcvs = 0 /\ Len(q.tries) = 3) => q.tries[3].lcvs = 65535

\* the third attempt of a query whose sample had lcvs 0
C37_ThirdAttemptAtZero ==
  /\ AnalogBranchRan
  /\ q.stdi.lcvs = 0
  /\ Len(q.tries) = 3
  /\ q.tries[3].lcvs = 65535

(* ----------------------------------------------------------------------- *)
(* TimingResolver: the width of hfreq * htotal                              *)
(* ----------------------------------------------------------------------- *)

\* hfreq * htotal(entry) is below 2^32: its quotient by 2^16 is below 2^16
ProductFitsU32(hfreq, entry) ==
  (hfreq \div 65536) * htotal(entry) +
  ((hfreq % 65536) * htotal(entry)) \div 65536 < 65536

\* the entries whose product the loop of stdi2dv_timings computes
ProductComputed(stdi) ==
  { i \in 1 .. Len(adv7604_timings) :
      /\ vtotal(adv7604_timings[i]) = stdi.lcf + 1
      /\ adv7604_timings[i].vsync = stdi.lcvs }

\* the sample of the last query passed the validation of read_stdi
SamplePassed ==
  /\ q.stdi.bl \in 8 .. 16382
  /\ q.stdi.lcf >= 239

\* C38: for every sample that passes the validation of read_stdi and every
\* entry of the table the division by bl is defined and hfreq * htotal
\* fits in 32 bits, so that an entry is returned only when the true product
\* is within 1,000,000 Hz of its pixel clock
C38_ProductFits ==
  AnalogBranchRan =>
    /\ SamplePassed
    /\ \A k \in 1 .. Len(q.tries) :
         /\ \A i \in 1 .. Len(adv7604_timings) :
              ProductFitsU32(stdi_hfreq(q.tries[k]), adv7604_timings[i])
         /\ (k = Len(q.tries) /\ q.path = "analog" /\ q.resolved \in TableEntries)
              => PixelclockNear(stdi_hfreq(q.tries[k]), q.resolved)

\* what the code guarantees: the division is defined, hfreq fits in 32
\* bits, and an entry returned after a product that fitted is within
\* 1,000,000 Hz of its pixel clock
C38_DivisionDefined ==
  AnalogBranchRan =>
    /\ SamplePassed
    /\ stdi_hfreq(q.stdi) \in 1 .. ADV7604_fsc
    /\ LET n == Len(q.tries) IN
       (/\ q.path = "analog"
        /\ q.resolved \in TableEntries
        /\ ProductFitsU32(stdi_hfreq(q.tries[n]), q.resolved))
         => PixelclockNear(stdi_hfreq(q.tries[n]), q.resolved)

\* an entry returned on a product that does not fit in 32 bits
C38_EntryByWrap ==
  /\ AnalogBranchRan
  /\ q.path = "analog"
  /\ q.resolved \in TableEntries
  /\ q.stdi.bl = 28
  /\ ~ProductFitsU32(stdi_hfreq(q.tries[Len(q.tries)]), q.resolved)
  /\ ~PixelclockNear(stdi_hfreq(q.tries[Len(q.tries)]), q.resolved)

(* ----------------------------------------------------------------------- *)
(* ModeConfigurator: the configured timing and the input mode               *)
(* ----------------------------------------------------------------------- *)

\* the limit s_dv_timings applies in the current mode
ModePixelclockLimit ==
  IF DIGITAL_INPUT(mode) THEN DigitalMaxPixelclock ELSE AnalogMaxPixelclock

\* C39: in every reachable state, after any interleaving of s_dv_timings
\* and s_routing calls, the pixel clock of the configured timing does not
\* exceed the limit of the current input mode, 170 MHz in the composite and
\* graphics modes and 225 MHz in the hdmi mode
C39_TimingWithinModeLimit == timings.pixelclock <= ModePixelclockLimit

\* what the code guarantees: the configured timing never exceeds the
\* digital limit, it is within the limit of the mode when s_dv_timings
\* returns 0, and s_routing leaves it as it is
C39_WithinLimitWhenSet ==
  /\ [](timings.pixelclock <= DigitalMaxPixelclock)
  /\ []((SDvRan /\ ret = 0) => timings.pixelclock <= ModePixelclockLimit)
  /\ [][op' = "s_routing" => timings' = timings]_vars

\* a timing set in the hdmi mode is still configured after a route to the
\* graphics input, above 170 MHz
C39_RoutedPastLimit ==
  /\ op = "s_routing"
  /\ ret = 0
  /\ mode = ADV7604_MODE_GR
  /\ timings.pixelclock = 204750000

(* ----------------------------------------------------------------------- *)
(* The digital branch: the two fields of an interlaced signal               *)
(* ----------------------------------------------------------------------- *)

\* the last query_dv_timings call read the timing from the HDMI map
DigitalBranchRan ==
  op = "query_dv_timings" /\ q.digital /\ q.path = "digital"

\* half of a 13-bit register pair of the HDMI map
HalfOf(v) == BitAnd(v, 8191) \div 2

\* C40: in the digital branch the field-0 vertical back porch of an
\* interlaced signal is half of HDMI 0x32, il_vfrontporch, il_vsync and
\* il_vbackporch are half of HDMI 0x2c, 0x30 and 0x34, no read of a
\* field-1 register replaces a field-0 value, and for a progressive signal
\* the three field-1 values stay 0
C40_FieldValues ==
  DigitalBranchRan =>
    /\ q.resolved.vfrontporch = HalfOf(q.hdmi.r2a)
    /\ q.resolved.vsync = HalfOf(q.hdmi.r2e)
    /\ q.resolved.vbackporch = HalfOf(q.hdmi.r32)
    /\ IF q.resolved.interlaced = 1
       THEN /\ q.resolved.il_vfrontporch = HalfOf(q.hdmi.r2c)
            /\ q.resolved.il_vsync = HalfOf(q.hdmi.r30)
            /\ q.resolved.il_vbackporch = HalfOf(q.hdmi.r34)
       ELSE /\ q.resolved.il_vfrontporch = 0
            /\ q.resolved.il_vsync = 0
            /\ q.resolved.il_vbackporch = 0

\* what the code does: half of HDMI 0x34 is assigned to vbackporch, in
\* place of the half of 0x32, and il_vbackporch stays 0 for every signal
C40_BackPorchReplaced ==
  DigitalBranchRan =>
    /\ q.resolved.vfrontporch = HalfOf(q.hdmi.r2a)
    /\ q.resolved.vsync = HalfOf(q.hdmi.r2e)
    /\ q.resolved.il_vbackporch = 0
    /\ IF q.resolved.interlaced = 1
       THEN /\ q.resolved.vbackporch = HalfOf(q.hdmi.r34)
            /\ q.resolved.il_vfrontporch = HalfOf(q.hdmi.r2c)
            /\ q.resolved.il_vsync = HalfOf(q.hdmi.r30)
       ELSE /\ q.resolved.vbackporch = HalfOf(q.hdmi.r32)
            /\ q.resolved.il_vfrontporch = 0
            /\ q.resolved.il_vsync = 0

\* an interlaced signal whose two back-porch registers differ was read
C40_InterlacedRead ==
  /\ DigitalBranchRan
  /\ ret = 0
  /\ q.resolved.interlaced = 1
  /\ HalfOf(q.hdmi.r32) = 15
  /\ HalfOf(q.hdmi.r34) = 18
  /\ q.resolved.vbackporch = 18
  /\ q.resolved.il_vbackporch = 0

====
